---- MODULE Spec2Model ----
(***************************************************************************)
(* Workflow-graph layer of alteryx2python: the loader's failure handling   *)
(* (alteryx_parser.load_alteryx_data) and the graph helpers of             *)
(* traverse_helper (get_execution_order, adjust_order,                     *)
(* parse_linear_chains).                                                   *)
(*                                                                         *)
(* Encoding.  Tool ids are the strings the loader reads from the ToolID    *)
(* attributes; the helpers only compare them for equality, so the id       *)
(* strings "1", "2", ... are written as the numbers 1, 2, ...  Python's    *)
(* None is Null and the four-character string "None" (what str(None)       *)
(* gives) is NoneStr.  A DataFrame is a record [columns, rows]: columns    *)
(* is FALSE for the column-less frame pd.DataFrame() / pd.DataFrame([]),   *)
(* on which every df["..."] lookup raises KeyError.  A call's outcome is   *)
(* a record [kind, value, exception] with kind "return" or "raise".        *)
(***************************************************************************)
EXTENDS Integers, Sequences, FiniteSets, TLC

\* ------------------------------------------------------------------ bounds
NumTools == 3
MaxConns == 3
MaxList == 3
MaxRef == 3
MaxDocTools == 2
MaxDocConns == 1

VARIABLES pc, df_nodes, df_connections, random_tool_ids, execution_sequence,
          result, first_result, file, tool_id, uploaded_file, session_state,
          frame

vars == <<pc, df_nodes, df_connections, random_tool_ids, execution_sequence,
          result, first_result, file, tool_id, uploaded_file, session_state,
          frame>>

\* ------------------------------------------------------------- data model
Null == 0
NoneStr == 0 - 1
ToolIds == 1..NumTools

Range(s) == {s[i] : i \in DOMAIN s}

SeqsUpTo(S, n) == UNION {[1..k -> S] : k \in 0..n}

\* A connection row as load_alteryx_connections appends it.
ConnectionRow(o, oc, d, dc) ==
    [origin_tool_id |-> o, origin_connection |-> oc,
     destination_tool_id |-> d, destination_connection |-> dc]

\* pd.DataFrame(rows): a frame built from an empty list of dicts has no
\* columns at all.
DataFrame(rows) == [columns |-> rows # <<>>, rows |-> rows]

\* pd.DataFrame(rows, columns=[...]): the columns exist even with no rows.
DataFrameWithColumns(rows) == [columns |-> TRUE, rows |-> rows]

\* pd.DataFrame(): no columns, no rows.
EmptyDataFrame == [columns |-> FALSE, rows |-> <<>>]

NodeRow(t) == [tool_id |-> t]

Return(v) == [kind |-> "return", value |-> v, exception |-> ""]
Raise(e) == [kind |-> "raise", value |-> <<>>, exception |-> e]
NoResult == [kind |-> "none", value |-> <<>>, exception |-> ""]

CycleDetected == "Cycle detected in workflow connections!"
KeyError == "KeyError"

\* ----------------------------------------------------- get_execution_order
\* nx.DiGraph: nodes in insertion order, edges (u, v) in insertion order,
\* each node and each edge stored once.
EmptyGraph == [nodes |-> <<>>, edges |-> <<>>]

add_node(G, n) ==
    IF n \in Range(G.nodes) THEN G ELSE [G EXCEPT !.nodes = Append(@, n)]

\* add_edge with the endpoints swapped.
add_edge_reversed(G, u, v) ==
    LET G2 == add_node(add_node(G, u), v)
    IN IF <<v, u>> \in Range(G2.edges) THEN G2
       ELSE [G2 EXCEPT !.edges = Append(@, <<v, u>>)]

\* add_edge that connects only tools the graph already has.
add_edge_known_only(G, u, v) ==
    IF u \in Range(G.nodes) /\ v \in Range(G.nodes)
    THEN IF <<u, v>> \in Range(G.edges) THEN G
         ELSE [G EXCEPT !.edges = Append(@, <<u, v>>)]
    ELSE G

add_edge(G, u, v) ==
    LET G2 == add_node(add_node(G, u), v)
    IN IF <<u, v>> \in Range(G2.edges) THEN G2
       ELSE [G2 EXCEPT !.edges = Append(@, <<u, v>>)]

\* A null test that lets every id pass.
notnull_always(x) == TRUE

\* pd.notnull
notnull(x) == x # Null

RECURSIVE AddNodes(_, _)
AddNodes(G, rows) ==
    IF rows = <<>> THEN G
    ELSE AddNodes(add_node(G, Head(rows).tool_id), Tail(rows))

RECURSIVE AddEdges(_, _)
AddEdges(G, rows) ==
    IF rows = <<>> THEN G
    ELSE LET origin == Head(rows).origin_tool_id
             destination == Head(rows).destination_tool_id
         IN AddEdges(IF notnull(origin) /\ notnull(destination)
                     THEN add_edge(G, origin, destination) ELSE G,
                     Tail(rows))

\* G.neighbors(u): successors of u in edge insertion order.
RECURSIVE neighbors(_, _)
neighbors(edges, u) ==
    IF edges = <<>> THEN <<>>
    ELSE IF Head(edges)[1] = u
         THEN <<Head(edges)[2]>> \o neighbors(Tail(edges), u)
         ELSE neighbors(Tail(edges), u)

\* G.in_degree(v): a self-loop counts once.
in_degree_of(G, v) == Cardinality({i \in DOMAIN G.edges : G.edges[i][2] = v})

\* The inner loop of topological_generations over the children of one node.
RECURSIVE VisitChildren(_, _, _)
VisitChildren(children, indegree_map, zero_indegree) ==
    IF children = <<>>
    THEN [indegree_map |-> indegree_map, zero_indegree |-> zero_indegree]
    ELSE LET child == Head(children)
         IN IF indegree_map[child] - 1 = 0
            THEN VisitChildren(Tail(children),
                     [x \in (DOMAIN indegree_map) \ {child} |-> indegree_map[x]],
                     Append(zero_indegree, child))
            ELSE VisitChildren(Tail(children),
                     [indegree_map EXCEPT ![child] = @ - 1], zero_indegree)

RECURSIVE VisitGeneration(_, _, _, _)
VisitGeneration(G, this_generation, indegree_map, zero_indegree) ==
    IF this_generation = <<>>
    THEN [indegree_map |-> indegree_map, zero_indegree |-> zero_indegree]
    ELSE LET r == VisitChildren(neighbors(G.edges, Head(this_generation)),
                                indegree_map, zero_indegree)
         IN VisitGeneration(G, Tail(this_generation),
                            r.indegree_map, r.zero_indegree)

\* nx.topological_generations: yields generation after generation and, when
\* vertices with unmet in-degree remain, raises NetworkXUnfeasible after the
\* generations already yielded.
RECURSIVE topological_generations(_, _, _, _)
topological_generations(G, zero_indegree, indegree_map, yielded) ==
    IF zero_indegree = <<>>
    THEN [yielded |-> yielded, unfeasible |-> DOMAIN indegree_map # {}]
    ELSE LET r == VisitGeneration(G, zero_indegree, indegree_map, <<>>)
         IN topological_generations(G, r.zero_indegree, r.indegree_map,
                                    yielded \o zero_indegree)

\* nx.topological_sort(G), as a generator: what it yields and whether it
\* ends by raising NetworkXUnfeasible.
topological_sort(G) ==
    LET V == Range(G.nodes)
        positive == {v \in V : in_degree_of(G, v) > 0}
    IN topological_generations(G,
           SelectSeq(G.nodes, LAMBDA v : in_degree_of(G, v) = 0),
           [v \in positive |-> in_degree_of(G, v)],
           <<>>)

\* A handler that keeps what the generator yielded before it raised.
OrderOrRaise_partial(ts) == Return(ts.yielded)

\* list(generator) inside try/except: an exception raised by the generator
\* discards what it yielded.
OrderOrRaise(ts) ==
    IF ts.unfeasible THEN Raise(CycleDetected) ELSE Return(ts.yielded)

get_execution_order(nodes, connections) ==
    IF ~nodes.columns THEN Raise(KeyError)
    ELSE OrderOrRaise(topological_sort(
             AddEdges(AddNodes(EmptyGraph, nodes.rows), connections.rows)))

\* ------------------------------------------------------------ shared inputs
\* get_execution_order and parse_linear_chains read only the two id columns.
\* The origin port alternates with the row's position, so that two rows with
\* the same endpoints are parallel connections on different ports when their
\* positions differ in parity and repeated rows otherwise.
PortAt(i) == IF i % 2 = 1 THEN "Output" ELSE "True"

ConnectionRows(pairs) ==
    [i \in DOMAIN pairs |->
        ConnectionRow(pairs[i][1], PortAt(i), pairs[i][2], "Input")]

ConnectionTables ==
    {DataFrame(ConnectionRows(p)) : p \in SeqsUpTo(ToolIds \X ToolIds, MaxConns)}

\* Ids are opaque, so a nodes table with unique ids is, up to renaming the
\* ids, the table <<1, ..., k>>; the connection tables range over every id,
\* which covers every relative order of node rows and connection rows.
NodeTables ==
    {DataFrameWithColumns([i \in 1..k |-> NodeRow(i)]) : k \in 0..NumTools}

\* ------------------------------------------- specification: execution order
InitOrder ==
    /\ frame = <<>>
    /\ uploaded_file = <<>>
    /\ session_state = <<>>
    /\ pc = "ready"
    /\ \/ df_nodes \in NodeTables /\ df_connections \in ConnectionTables
       \/ df_nodes = EmptyDataFrame /\ df_connections = EmptyDataFrame
    /\ random_tool_ids = <<>>
    /\ execution_sequence = <<>>
    /\ result = NoResult
    /\ first_result = NoResult
    /\ tool_id = Null
    /\ file = "none"

CallGetExecutionOrder ==
    /\ pc = "ready"
    /\ result' = get_execution_order(df_nodes, df_connections)
    /\ pc' = "done"
    /\ UNCHANGED <<df_nodes, df_connections, random_tool_ids,
                   execution_sequence, first_result, file, tool_id,
                   uploaded_file, session_state, frame>>

NextOrder == CallGetExecutionOrder

SpecOrder == InitOrder /\ [][NextOrder]_vars

\* --------------------------------------------- graph notions for the claims
\* The collapsed (origin, destination) pairs of the rows with both ids.
EdgePairs(connections) ==
    {<<connections.rows[i].origin_tool_id,
       connections.rows[i].destination_tool_id>> :
        i \in {j \in DOMAIN connections.rows :
                 /\ connections.rows[j].origin_tool_id # Null
                 /\ connections.rows[j].destination_tool_id # Null}}

RECURSIVE TransitiveClosure(_)
TransitiveClosure(R) ==
    LET step == R \cup {<<p[1][1], p[2][2]>> :
                           p \in {q \in R \X R : q[1][2] = q[2][1]}}
    IN IF step = R THEN R ELSE TransitiveClosure(step)

HasCycle(connections) ==
    \E e \in TransitiveClosure(EdgePairs(connections)) : e[1] = e[2]

NodeIds(nodes) == {nodes.rows[i].tool_id : i \in DOMAIN nodes.rows}

EndpointIds(connections) ==
    {e[1] : e \in EdgePairs(connections)} \cup
    {e[2] : e \in EdgePairs(connections)}

Occurrences(s, x) == Cardinality({i \in DOMAIN s : s[i] = x})

IndexOf(s, x) == CHOOSE i \in DOMAIN s : s[i] = x

Precedes(s, u, v) ==
    /\ Occurrences(s, u) = 1
    /\ Occurrences(s, v) = 1
    /\ IndexOf(s, u) < IndexOf(s, v)

\* C1: for a nodes table with unique ids and an acyclic connection table
\* whose endpoints all name existing nodes, get_execution_order returns
\* every node id exactly once and nothing else, and every connection's
\* origin comes before its destination.
C1_TopologicalPermutation ==
    (/\ pc = "done"
     /\ df_nodes.columns
     /\ EndpointIds(df_connections) \subseteq NodeIds(df_nodes)
     /\ ~HasCycle(df_connections))
    => /\ result.kind = "return"
       /\ Range(result.value) = NodeIds(df_nodes)
       /\ Len(result.value) = Cardinality(NodeIds(df_nodes))
       /\ \A e \in EdgePairs(df_connections) :
             Precedes(result.value, e[1], e[2])

\* Witness of C1: an order was returned for a workflow with a parallel
\* connection and a fan-out.
C1_Witness ==
    /\ pc = "done"
    /\ result.kind = "return"
    /\ EndpointIds(df_connections) \subseteq NodeIds(df_nodes)
    /\ Len(df_connections.rows) = 3
    /\ Cardinality(EdgePairs(df_connections)) = 2
    /\ \E u, v, w \in ToolIds :
          /\ v # w
          /\ EdgePairs(df_connections) = {<<u, v>>, <<u, w>>}

\* C2: when the collapsed connection graph has a cycle (a self-connection
\* included), get_execution_order raises the 'Cycle detected' error and
\* returns nothing, whatever else the workflow contains.
C2_CycleRaises ==
    (pc = "done" /\ HasCycle(df_connections))
    => result = Raise(CycleDetected)

\* Witness of C2: a cyclic workflow in which an acyclic tool would have been
\* ordered before the cycle is reached.
C2_Witness ==
    /\ pc = "done"
    /\ result.kind = "raise"
    /\ \E u, v \in ToolIds :
          /\ u # v
          /\ <<u, v>> \in EdgePairs(df_connections)
          /\ <<v, v>> \in EdgePairs(df_connections)
          /\ \A e \in EdgePairs(df_connections) : e[2] # u

\* C4: an id that a connection names and the nodes table lacks does not
\* make get_execution_order fail; it appears exactly once in the order,
\* after every tool that feeds it and before every tool it feeds.
C4_DanglingEndpointOrdered ==
    (/\ pc = "done"
     /\ df_nodes.columns
     /\ ~HasCycle(df_connections))
    => /\ result.kind = "return"
       /\ \A x \in EndpointIds(df_connections) \ NodeIds(df_nodes) :
             /\ Occurrences(result.value, x) = 1
             /\ \A e \in EdgePairs(df_connections) :
                   (e[1] = x \/ e[2] = x)
                       => Precedes(result.value, e[1], e[2])

\* Witness of C4: a dangling id that is fed by one tool and feeds another.
C4_Witness ==
    /\ pc = "done"
    /\ result.kind = "return"
    /\ \E x \in EndpointIds(df_connections) \ NodeIds(df_nodes) :
          \E u, v \in ToolIds :
              /\ <<u, x>> \in EdgePairs(df_connections)
              /\ <<x, v>> \in EdgePairs(df_connections)

\* ------------------------------------------------------------ adjust_order
\* float('inf'), the key of an id the reference order lacks.
Infinity == [finite |-> FALSE, index |-> 0]

\* sequence_lookup = {tool: index for index, tool in enumerate(...)}: a
\* repeated id keeps the index of its last occurrence (indices from 0).
sequence_lookup(sequence) ==
    [tool \in Range(sequence) |->
        CHOOSE i \in 0..(Len(sequence) - 1) :
            /\ sequence[i + 1] = tool
            /\ \A j \in 0..(Len(sequence) - 1) : sequence[j + 1] = tool => j <= i]

\* A lookup whose default sorts before every known position.
SortKey_default_first(lookup, tool) ==
    IF tool \in DOMAIN lookup
    THEN [finite |-> TRUE, index |-> lookup[tool]]
    ELSE [finite |-> TRUE, index |-> 0 - 1]

\* sequence_lookup.get(tool, float('inf'))
SortKey(lookup, tool) ==
    IF tool \in DOMAIN lookup
    THEN [finite |-> TRUE, index |-> lookup[tool]]
    ELSE Infinity

\* k1 < k2 on the keys (ints and float('inf')).
KeyLess(k1, k2) ==
    IF ~k1.finite THEN FALSE
    ELSE IF ~k2.finite THEN TRUE
    ELSE k1.index < k2.index

\* An insertion that puts x before the elements with an equal key.
RECURSIVE InsertUnstable(_, _, _)
InsertUnstable(sorted_list, x, lookup) ==
    IF sorted_list = <<>> THEN <<x>>
    ELSE IF ~KeyLess(SortKey(lookup, Head(sorted_list)), SortKey(lookup, x))
         THEN <<x>> \o sorted_list
         ELSE <<Head(sorted_list)>> \o InsertUnstable(Tail(sorted_list), x, lookup)

\* Stable insertion of x into a list sorted by key: x goes after every
\* element whose key is not greater than its own.
RECURSIVE InsertStable(_, _, _)
InsertStable(sorted_list, x, lookup) ==
    IF sorted_list = <<>> THEN <<x>>
    ELSE IF KeyLess(SortKey(lookup, x), SortKey(lookup, Head(sorted_list)))
         THEN <<x>> \o sorted_list
         ELSE <<Head(sorted_list)>> \o InsertStable(Tail(sorted_list), x, lookup)

\* A sort that keeps one copy of each item.
RECURSIVE SortedByKey_distinct(_, _, _)
SortedByKey_distinct(items, lookup, acc) ==
    IF items = <<>> THEN acc
    ELSE SortedByKey_distinct(Tail(items), lookup,
             IF Head(items) \in Range(acc) THEN acc
             ELSE InsertStable(acc, Head(items), lookup))

\* sorted(items, key=...): Python's sort is stable.
RECURSIVE SortedByKey(_, _, _)
SortedByKey(items, lookup, acc) ==
    IF items = <<>> THEN acc
    ELSE SortedByKey(Tail(items), lookup, InsertStable(acc, Head(items), lookup))

adjust_order(tool_ids, sequence) ==
    SortedByKey(tool_ids, sequence_lookup(sequence), <<>>)

\* ----------------------------------------------- specification: adjust_order
InitAdjust ==
    /\ frame = <<>>
    /\ uploaded_file = <<>>
    /\ session_state = <<>>
    /\ pc = "ready"
    /\ df_nodes = EmptyDataFrame
    /\ df_connections = EmptyDataFrame
    /\ random_tool_ids \in SeqsUpTo(ToolIds, MaxList)
    /\ execution_sequence \in SeqsUpTo(ToolIds, MaxRef)
    /\ result = NoResult
    /\ first_result = NoResult
    /\ tool_id = Null
    /\ file = "none"

CallAdjustOrder ==
    /\ pc = "ready"
    /\ result' = Return(adjust_order(random_tool_ids, execution_sequence))
    /\ first_result' = result'
    /\ pc' = "adjusted"
    /\ UNCHANGED <<df_nodes, df_connections, random_tool_ids,
                   execution_sequence, file, tool_id,
                   uploaded_file, session_state, frame>>

\* adjust_order applied to its own output, with the same reference order.
CallAdjustOrderAgain ==
    /\ pc = "adjusted"
    /\ result' = Return(adjust_order(first_result.value, execution_sequence))
    /\ pc' = "readjusted"
    /\ UNCHANGED <<df_nodes, df_connections, random_tool_ids,
                   execution_sequence, first_result, file, tool_id,
                   uploaded_file, session_state, frame>>

NextAdjust == CallAdjustOrder \/ CallAdjustOrderAgain

SpecAdjust == InitAdjust /\ [][NextAdjust]_vars

\* The position the reference order gives an id: that of its last
\* occurrence (its only one when the reference has no repeated id).
RefPosition(reference, x) ==
    CHOOSE i \in DOMAIN reference :
        reference[i] = x /\ \A j \in DOMAIN reference : reference[j] = x => j <= i

\* The ids of s the reference has, and those it lacks, in the order of s.
Known(s, reference) == SelectSeq(s, LAMBDA x : x \in Range(reference))
Unknown(s, reference) == SelectSeq(s, LAMBDA x : x \notin Range(reference))

IsPermutationOf(s, t) ==
    /\ Len(s) = Len(t)
    /\ \A x \in Range(s) \cup Range(t) : Occurrences(s, x) = Occurrences(t, x)

\* C5: adjust_order returns the ids that occur in the reference order
\* first, in the relative order the reference gives them, followed by the
\* ids the reference lacks in the relative order they had in the input.
C5_AdjustOrderResult ==
    (pc = "adjusted")
    => LET out == result.value
           k == Len(Known(random_tool_ids, execution_sequence))
       IN /\ result.kind = "return"
          /\ IsPermutationOf(out, random_tool_ids)
          /\ \A i \in 1..k : out[i] \in Range(execution_sequence)
          /\ \A i \in 1..(k - 1) :
                RefPosition(execution_sequence, out[i])
                    <= RefPosition(execution_sequence, out[i + 1])
          /\ SubSeq(out, k + 1, Len(out))
                = Unknown(random_tool_ids, execution_sequence)

\* Witness of C5: known ids were moved in front of an unknown id and put in
\* reference order (the shape of reference [A,B,C] and input [X,C,A]).
C5_Witness ==
    /\ pc = "adjusted"
    /\ Len(random_tool_ids) = 3
    /\ random_tool_ids[1] \notin Range(execution_sequence)
    /\ random_tool_ids[2] \in Range(execution_sequence)
    /\ random_tool_ids[3] \in Range(execution_sequence)
    /\ random_tool_ids[2] # random_tool_ids[3]
    /\ result.value = <<random_tool_ids[3], random_tool_ids[2], random_tool_ids[1]>>

\* C6: adjust_order(adjust_order(L, R), R) = adjust_order(L, R).
C6_AdjustOrderIdempotent ==
    (pc = "readjusted") => result = first_result

\* Witness of C6: the second application ran on a list the first one had
\* really reordered, with unknown ids tied at the end.
C6_Witness ==
    /\ pc = "readjusted"
    /\ first_result.value # random_tool_ids
    /\ Cardinality(Range(Unknown(random_tool_ids, execution_sequence))) >= 2

\* C28: adjust_order only reorders: for every input list and every
\* reference order, an empty one and one with repeated ids included, the
\* returned list has the length of the input list and holds every id as
\* often as the input list does.
C28_AdjustOrderOnlyReorders ==
    (pc \in {"adjusted", "readjusted"})
    => /\ result.kind = "return"
       /\ Len(result.value) = Len(random_tool_ids)
       /\ \A x \in ToolIds :
             Occurrences(result.value, x) = Occurrences(random_tool_ids, x)

\* Witness of C28: an input with a repeated id was reordered against a
\* reference that repeats an id, and the repeated id is still there twice.
C28_Witness ==
    /\ pc = "adjusted"
    /\ Len(random_tool_ids) = 3
    /\ Cardinality(Range(random_tool_ids)) = 2
    /\ Cardinality(Range(execution_sequence)) < Len(execution_sequence)
    /\ result.value # random_tool_ids
    /\ \E x \in ToolIds : Occurrences(result.value, x) = 2

\* ------------------------------------------------------ parse_linear_chains
\* str(x) on an id: the identity on a string, "None" on None.
Str(x) == IF x = Null THEN NoneStr ELSE x

\* The keys adj_list gets from the row loop: each origin, in order of first
\* appearance.
RECURSIVE OriginKeys(_, _)
OriginKeys(rows, keys) ==
    IF rows = <<>> THEN keys
    ELSE LET u == Str(Head(rows).origin_tool_id)
         IN OriginKeys(Tail(rows),
                       IF u \in Range(keys) THEN keys ELSE Append(keys, u))

\* adj_list[u]: one entry per row leaving u, in row order.
RECURSIVE AdjacencyOf(_, _)
AdjacencyOf(rows, u) ==
    IF rows = <<>> THEN <<>>
    ELSE IF Str(Head(rows).origin_tool_id) = u
         THEN <<Str(Head(rows).destination_tool_id)>> \o AdjacencyOf(Tail(rows), u)
         ELSE AdjacencyOf(Tail(rows), u)

\* Step 1 of parse_linear_chains: the adjacency list and the degree
\* counters, one count per row.  The keys added afterwards for all_nodes
\* have empty adjacency lists and contribute nothing to the main loop.
BuildGraph(rows) ==
    LET V == {Str(rows[i].origin_tool_id) : i \in DOMAIN rows} \cup
             {Str(rows[i].destination_tool_id) : i \in DOMAIN rows}
    IN [keys |-> OriginKeys(rows, <<>>),
        adj_list |-> [u \in V |-> AdjacencyOf(rows, u)],
        in_degree |-> [v \in V |->
            Cardinality({i \in DOMAIN rows : Str(rows[i].destination_tool_id) = v})],
        out_degree |-> [u \in V |->
            Cardinality({i \in DOMAIN rows : Str(rows[i].origin_tool_id) = u})]]

\* A loop condition that forgets the in-degree.
IsLinear_out_only(g, current) == g.out_degree[current] = 1

\* The condition of build_chain's while loop.
IsLinear(g, current) ==
    g.in_degree[current] = 1 /\ g.out_degree[current] = 1

\* The body of build_chain's while loop, until it exits.
RECURSIVE FollowChain(_, _, _, _)
FollowChain(g, chain, used_edges, current) ==
    IF ~IsLinear(g, current)
    THEN [chain |-> chain, used_edges |-> used_edges]
    ELSE LET next_nodes == g.adj_list[current]
         IN IF next_nodes = <<>>
            THEN [chain |-> chain, used_edges |-> used_edges]
            ELSE LET nxt == next_nodes[1]
                 IN IF <<current, nxt>> \in used_edges
                    THEN [chain |-> chain, used_edges |-> used_edges]
                    ELSE FollowChain(g, Append(chain, nxt),
                                     used_edges \cup {<<current, nxt>>}, nxt)

build_chain(g, u, v, used_edges) ==
    FollowChain(g, <<u, v>>, used_edges \cup {<<u, v>>}, v)

\* A main loop that starts a chain at every adjacency entry.
EdgeUnused_always(used_edges, u, v) == TRUE

\* The test of the main loop before it starts a chain at edge (u, v).
EdgeUnused(used_edges, u, v) == <<u, v>> \notin used_edges

\* for v in adj_list[u]
RECURSIVE ChainsFrom(_, _, _, _)
ChainsFrom(g, u, targets, st) ==
    IF targets = <<>> THEN st
    ELSE LET v == Head(targets)
         IN IF EdgeUnused(st.used_edges, u, v)
            THEN LET b == build_chain(g, u, v, st.used_edges)
                 IN ChainsFrom(g, u, Tail(targets),
                               [used_edges |-> b.used_edges,
                                chains |-> Append(st.chains, b.chain)])
            ELSE ChainsFrom(g, u, Tail(targets), st)

\* for u in adj_list
RECURSIVE MainLoop(_, _, _)
MainLoop(g, keys, st) ==
    IF keys = <<>> THEN st
    ELSE MainLoop(g, Tail(keys),
                  ChainsFrom(g, Head(keys), g.adj_list[Head(keys)], st))

parse_linear_chains(connections) ==
    IF ~connections.columns THEN Raise(KeyError)
    ELSE LET g == BuildGraph(connections.rows)
         IN Return(MainLoop(g, g.keys, [used_edges |-> {}, chains |-> <<>>]).chains)

\* ------------------------------------------- specification: linear chains
InitChains ==
    /\ frame = <<>>
    /\ uploaded_file = <<>>
    /\ session_state = <<>>
    /\ pc = "ready"
    /\ df_nodes = EmptyDataFrame
    /\ df_connections \in ConnectionTables
    /\ random_tool_ids = <<>>
    /\ execution_sequence = <<>>
    /\ result = NoResult
    /\ first_result = NoResult
    /\ tool_id = Null
    /\ file = "none"

CallParseLinearChains ==
    /\ pc = "ready"
    /\ result' = parse_linear_chains(df_connections)
    /\ pc' = "done"
    /\ UNCHANGED <<df_nodes, df_connections, random_tool_ids,
                   execution_sequence, first_result, file, tool_id,
                   uploaded_file, session_state, frame>>

NextChains == CallParseLinearChains

SpecChains == InitChains /\ [][NextChains]_vars

\* ------------------------------------------- chain notions for the claims
RowsFromTo(connections, u, v) ==
    {i \in DOMAIN connections.rows :
        /\ connections.rows[i].origin_tool_id = u
        /\ connections.rows[i].destination_tool_id = v}

InDeg(connections, v) ==
    Cardinality({i \in DOMAIN connections.rows :
                    connections.rows[i].destination_tool_id = v})

OutDeg(connections, u) ==
    Cardinality({i \in DOMAIN connections.rows :
                    connections.rows[i].origin_tool_id = u})

\* Exactly one incoming and exactly one outgoing connection.
OneInOneOut(connections, v) ==
    InDeg(connections, v) = 1 /\ OutDeg(connections, v) = 1

\* How often (u, v) is a consecutive pair of the chains, within one chain
\* or across chains.
PairOccurrences(chains, u, v) ==
    Cardinality({p \in (DOMAIN chains) \X (1..(MaxConns + 1)) :
                    /\ p[2] < Len(chains[p[1]])
                    /\ chains[p[1]][p[2]] = u
                    /\ chains[p[1]][p[2] + 1] = v})

\* C7 as claimed: every connection, parallel connections included, is a
\* consecutive pair of exactly one chain, so a pair of tools occurs in the
\* chains as often as connections join it.
C7_EveryConnectionInOneChain ==
    (pc = "done" /\ result.kind = "return")
    => \A u, v \in ToolIds :
          PairOccurrences(result.value, u, v)
              = Cardinality(RowsFromTo(df_connections, u, v))

\* C7 as amended: every distinct (origin, destination) pair of the
\* connection table is a consecutive pair of the chains exactly once, and
\* no other pair is.
C7_EveryCollapsedEdgeInOneChain ==
    (pc = "done" /\ result.kind = "return")
    => \A u, v \in ToolIds :
          PairOccurrences(result.value, u, v)
              = IF RowsFromTo(df_connections, u, v) # {} THEN 1 ELSE 0

\* Witness of C7: chains returned for a table with a parallel connection
\* and a further edge.
C7_Witness ==
    /\ pc = "done"
    /\ result.kind = "return"
    /\ Len(result.value) >= 2
    /\ \E u, v \in ToolIds : Cardinality(RowsFromTo(df_connections, u, v)) = 2

\* C8: in an acyclic workflow no returned chain begins or ends at a tool
\* with exactly one incoming and exactly one outgoing connection, whatever
\* the order of the rows.
C8_ChainsMaximal ==
    (pc = "done" /\ result.kind = "return" /\ ~HasCycle(df_connections))
    => \A c \in DOMAIN result.value :
          /\ ~OneInOneOut(df_connections, result.value[c][1])
          /\ ~OneInOneOut(df_connections,
                          result.value[c][Len(result.value[c])])

\* C9: every interior vertex of a returned chain has in-degree 1 and
\* out-degree 1; a branch or merge point is a chain's first or last element.
C9_InteriorVerticesLinear ==
    (pc = "done" /\ result.kind = "return")
    => \A c \in DOMAIN result.value :
          \A i \in 2..(Len(result.value[c]) - 1) :
              OneInOneOut(df_connections, result.value[c][i])

\* Witness of C9: a chain with an interior vertex that ends at a merge point.
C9_Witness ==
    /\ pc = "done"
    /\ result.kind = "return"
    /\ \E c \in DOMAIN result.value :
          /\ Len(result.value[c]) >= 3
          /\ InDeg(df_connections, result.value[c][Len(result.value[c])]) >= 2

\* ---------------------------------------------------------- load_alteryx_data
\* What is on disk at the workflow path: a well-formed workflow document
\* with its tool elements and connection entries, a document that is not
\* well-formed XML, or nothing readable.
DocTools == 1..MaxDocTools

\* A string attribute read with attrib.get: NoAttr is None, Some(s) is s.
NoAttr == <<>>
Some(s) == <<s>>

\* The empty string as a ToolID attribute (ToolID="").
EmptyStr == 0 - 2

\* An element of the parsed tree: its tag, its ToolID attribute (Null when
\* absent), its Plugin attribute, its Connection attribute (only read on
\* Origin and Destination elements, where the documents modelled always
\* carry it) and its child elements in document order.
Element(tag, id, plugin, connection, children) ==
    [tag |-> tag, ToolID |-> id, Plugin |-> plugin,
     Connection |-> connection, children |-> children]

\* element.find(tag): the first direct child with the tag, or None.
find(element, tag) ==
    LET hits == SelectSeq(element.children, LAMBDA c : c.tag = tag)
    IN IF hits = <<>> THEN <<>> ELSE <<hits[1]>>

\* element.findall(tag): the direct children with the tag.
findall(element, tag) == SelectSeq(element.children, LAMBDA c : c.tag = tag)

\* ----------------------------------------------------------- str methods
LowerCaseLetters == "abcdefghijklmnopqrstuvwxyz"
UpperCaseLetters == "ABCDEFGHIJKLMNOPQRSTUVWXYZ"

\* The position of character c in an alphabet, 0 when it is not in it.
LetterIndex(alphabet, c) ==
    IF \E i \in 1..Len(alphabet) : SubSeq(alphabet, i, i) = c
    THEN CHOOSE i \in 1..Len(alphabet) : SubSeq(alphabet, i, i) = c
    ELSE 0

char_lower(c) ==
    IF LetterIndex(UpperCaseLetters, c) > 0
    THEN SubSeq(LowerCaseLetters, LetterIndex(UpperCaseLetters, c),
                LetterIndex(UpperCaseLetters, c))
    ELSE c

char_upper(c) ==
    IF LetterIndex(LowerCaseLetters, c) > 0
    THEN SubSeq(UpperCaseLetters, LetterIndex(LowerCaseLetters, c),
                LetterIndex(LowerCaseLetters, c))
    ELSE c

is_cased(c) ==
    LetterIndex(LowerCaseLetters, c) > 0 \/ LetterIndex(UpperCaseLetters, c) > 0

\* str.lower()
RECURSIVE str_lower(_)
str_lower(s) ==
    IF s = "" THEN "" ELSE char_lower(Head(s)) \o str_lower(Tail(s))

\* str.title(): a letter that follows a letter is lowered, any other
\* letter is raised; digits and punctuation are kept and end the word.
RECURSIVE TitleFrom(_, _)
TitleFrom(s, previous_is_cased) ==
    IF s = "" THEN ""
    ELSE (IF previous_is_cased THEN char_lower(Head(s)) ELSE char_upper(Head(s)))
         \o TitleFrom(Tail(s), is_cased(Head(s)))

\* A title() that only raises the first letter of each word.
str_title_keep_case(s) ==
    IF s = "" THEN "" ELSE char_upper(Head(s)) \o Tail(s)

str_title(s) == TitleFrom(s, FALSE)

\* s.split('.')[-1]: what follows the last dot.
RECURSIVE LastSegment(_, _)
LastSegment(s, segment) ==
    IF s = "" THEN segment
    ELSE IF Head(s) = "." THEN LastSegment(Tail(s), "")
    ELSE LastSegment(Tail(s), segment \o Head(s))

\* s.endswith(suffix)
endswith(s, suffix) ==
    /\ Len(s) >= Len(suffix)
    /\ SubSeq(s, Len(s) - Len(suffix) + 1, Len(s)) = suffix

\* ------------------------------------------------------- load_alteryx_nodes
\* The normalisation of a Plugin attribute in load_alteryx_nodes.traverse:
\* None and the empty string are kept as they are.
NormalizeToolType(tool_type) ==
    IF tool_type = NoAttr \/ tool_type = Some("") THEN tool_type
    ELSE LET clear_name == LastSegment(tool_type[1], "")
             stripped == IF endswith(clear_name, "()")
                         THEN SubSeq(clear_name, 1, Len(clear_name) - Len("()"))
                         ELSE clear_name
         IN Some(str_title(stripped))

\* A row [tool_id, tool_type, text] of the nodes table.  The text is kept
\* as the sequence of the ToolID attribute values written in it, one per
\* occurrence of ToolID="..." and in order of occurrence.
NodeRecord(id, tool_type, text) ==
    [tool_id |-> id, tool_type |-> tool_type, text |-> text]

\* The ToolID="..." occurrences in the serialisation of a list of elements.
RECURSIVE TokensOf(_)
TokensOf(elements) ==
    IF elements = <<>> THEN <<>>
    ELSE (IF Head(elements).ToolID # Null
          THEN <<Head(elements).ToolID>> ELSE <<>>)
         \o TokensOf(Head(elements).children)
         \o TokensOf(Tail(elements))

\* inner_xml(element): the serialisation of the child elements.
inner_xml(element) == TokensOf(element.children)

\* An id test that also accepts a missing id.
IdPresent_always(id) == TRUE

\* if tool_id: neither None nor the empty string.
IdPresent(id) == id # Null /\ id # EmptyStr

\* The row traverse appends for a Node element.
RowOf(node) ==
    LET gui_settings == find(node, "GuiSettings")
        tool_type == IF gui_settings # <<>>
                     THEN gui_settings[1].Plugin ELSE NoAttr
    IN NodeRecord(node.ToolID, NormalizeToolType(tool_type), inner_xml(node))

\* traverse(node), as the rows it appends, and the loop over the children.
RECURSIVE traverse(_)
RECURSIVE TraverseChildren(_)
traverse(node) ==
    (IF node.tag = "Node" /\ IdPresent(node.ToolID)
     THEN <<RowOf(node)>> ELSE <<>>)
    \o TraverseChildren(node.children)

TraverseChildren(children) ==
    IF children = <<>> THEN <<>>
    ELSE traverse(Head(children)) \o TraverseChildren(Tail(children))

\* ------------------------------------------------------------- documents
FilterPlugin == "AlteryxBasePluginsGui.Filter.Filter"
ContainerPlugin == "AlteryxGuiToolkit.ToolContainer.ToolContainer"
BrowsePlugin == "AlteryxBasePluginsGui.BrowseV2.BrowseV2"

GuiSettingsElement(plugin) == Element("GuiSettings", Null, plugin, "", <<>>)

\* <Node ToolID=...><GuiSettings Plugin=.../><ChildNodes>...</ChildNodes></Node>;
\* GuiSettings is left out when plugin is NoGui and ChildNodes when there
\* are no nested nodes.
NoGui == <<"no GuiSettings">>

NodeElement(id, plugin, nested) ==
    Element("Node", id, NoAttr, "",
        (IF plugin = NoGui THEN <<>> ELSE <<GuiSettingsElement(plugin)>>)
        \o (IF nested = <<>> THEN <<>>
            ELSE <<Element("ChildNodes", Null, NoAttr, "", nested)>>))

\* A <Connection> entry; an endpoint is <<>> when its element is absent and
\* <<id>> when the element is there with that ToolID (Null: no ToolID).
ConnectionElement(origin, destination, port) ==
    Element("Connection", Null, NoAttr, "",
        (IF origin = <<>> THEN <<>>
         ELSE <<Element("Origin", origin[1], NoAttr, port, <<>>)>>)
        \o (IF destination = <<>> THEN <<>>
            ELSE <<Element("Destination", destination[1], NoAttr, "Input", <<>>)>>))

ConnectionsElement(endpoints) ==
    Element("Connections", Null, NoAttr, "",
        [i \in DOMAIN endpoints |->
            ConnectionElement(endpoints[i][1], endpoints[i][2], PortAt(i))])

\* The root element of a workflow document.
RootElement(nodes, sections) ==
    Element("AlteryxDocument", Null, NoAttr, "",
        <<Element("Nodes", Null, NoAttr, "", nodes)>> \o sections)

NoRoot == Element("", Null, NoAttr, "", <<>>)

\* A workflow with k tools and one connection entry per pair.
OkDocument(k, pairs) ==
    [status |-> "ok",
     root |-> RootElement(
         [i \in 1..k |-> NodeElement(i, Some(FilterPlugin), <<>>)],
         <<ConnectionsElement(
               [i \in DOMAIN pairs |-> <<(<<pairs[i][1]>>), (<<pairs[i][2]>>)>>])>>)]

MalformedDocument == [status |-> "malformed", root |-> NoRoot]

UnreadableFile == [status |-> "unreadable", root |-> NoRoot]

Documents ==
    {OkDocument(k, p) :
        k \in 0..MaxDocTools, p \in SeqsUpTo(DocTools \X DocTools, MaxDocConns)}
    \cup {MalformedDocument, UnreadableFile}

ParseError == "ParseError"
OSError == "OSError"

\* ET.parse(file_path): raises on an unreadable file or malformed XML.
ET_parse(doc) ==
    IF doc.status = "unreadable" THEN Raise(OSError)
    ELSE IF doc.status = "malformed" THEN Raise(ParseError)
    ELSE Return(doc)

load_alteryx_nodes(doc) ==
    LET tree == ET_parse(doc)
    IN IF tree.kind = "raise" THEN tree
       ELSE Return(DataFrameWithColumns(traverse(doc.root)))

\* A loader that also skips an entry whose endpoint has no ToolID.
EntryKept_with_ids(origin, destination) ==
    /\ origin # <<>>
    /\ destination # <<>>
    /\ origin[1].ToolID # Null
    /\ destination[1].ToolID # Null

\* if origin is not None and destination is not None
EntryKept(origin, destination) == origin # <<>> /\ destination # <<>>

\* The loop over the <Connection> entries.
RECURSIVE ConnectionDicts(_)
ConnectionDicts(entries) ==
    IF entries = <<>> THEN <<>>
    ELSE LET origin == find(Head(entries), "Origin")
             destination == find(Head(entries), "Destination")
         IN (IF EntryKept(origin, destination)
             THEN <<ConnectionRow(origin[1].ToolID, origin[1].Connection,
                                  destination[1].ToolID,
                                  destination[1].Connection)>>
             ELSE <<>>)
            \o ConnectionDicts(Tail(entries))

load_alteryx_connections(doc) ==
    LET tree == ET_parse(doc)
        connections_element == find(doc.root, "Connections")
    IN IF tree.kind = "raise" THEN tree
       ELSE Return(DataFrame(
                IF connections_element = <<>> THEN <<>>
                ELSE ConnectionDicts(
                         findall(connections_element[1], "Connection"))))

\* A handler that returns the nodes loaded so far.
ExceptHandler_keeps_nodes(exception, nodes) ==
    Return(<<nodes, EmptyDataFrame>>)

\* The two except clauses of load_alteryx_data: ET.ParseError and any other
\* Exception both return two empty frames; nodes is the local df_nodes at
\* the time of the failure, which the handlers do not use.
ExceptHandler(exception, nodes) ==
    IF exception = ParseError
    THEN Return(<<EmptyDataFrame, EmptyDataFrame>>)
    ELSE Return(<<EmptyDataFrame, EmptyDataFrame>>)

\* ----------------------------------------- specification: load_alteryx_data
InitLoad ==
    /\ frame = <<>>
    /\ uploaded_file = <<>>
    /\ session_state = <<>>
    /\ pc = "call"
    /\ file \in Documents
    /\ df_nodes = EmptyDataFrame
    /\ df_connections = EmptyDataFrame
    /\ random_tool_ids = <<>>
    /\ execution_sequence = <<>>
    /\ result = NoResult
    /\ first_result = NoResult
    /\ tool_id = Null

\* df_nodes = load_alteryx_nodes(file_path), and the except clauses when it
\* raises.
LoadNodesStep ==
    /\ pc = "call"
    /\ LET r == load_alteryx_nodes(file)
       IN \/ /\ r.kind = "return"
             /\ df_nodes' = r.value
             /\ pc' = "nodes_loaded"
             /\ UNCHANGED result
          \/ /\ r.kind = "raise"
             /\ result' = ExceptHandler(r.exception, df_nodes)
             /\ pc' = "returned"
             /\ UNCHANGED df_nodes
    /\ UNCHANGED <<df_connections, random_tool_ids, execution_sequence,
                   first_result, file, tool_id,
                   uploaded_file, session_state, frame>>

\* df_connections = load_alteryx_connections(file_path) and the return, or
\* the except clauses when it raises.
LoadConnectionsStep ==
    /\ pc = "nodes_loaded"
    /\ LET r == load_alteryx_connections(file)
       IN \/ /\ r.kind = "return"
             /\ df_connections' = r.value
             /\ result' = Return(<<df_nodes, r.value>>)
          \/ /\ r.kind = "raise"
             /\ result' = ExceptHandler(r.exception, df_nodes)
             /\ UNCHANGED df_connections
    /\ pc' = "returned"
    /\ UNCHANGED <<df_nodes, random_tool_ids, execution_sequence,
                   first_result, file, tool_id,
                   uploaded_file, session_state, frame>>

\* The file is parsed twice, once per loading step.  Every handler of the
\* application writes its upload to the same path "uploaded_workflow.yxmd",
\* so the content can change between the two parses.
ReplaceFile ==
    /\ pc = "nodes_loaded"
    /\ file' \in Documents \ {file}
    /\ UNCHANGED <<pc, df_nodes, df_connections, random_tool_ids,
                   execution_sequence, result, first_result, tool_id,
                   uploaded_file, session_state, frame>>

NextLoad == LoadNodesStep \/ LoadConnectionsStep \/ ReplaceFile

SpecLoad == InitLoad /\ [][NextLoad]_vars

\* C10: load_alteryx_data raises nothing to its caller; when the document
\* a loading step reads is malformed or unreadable it returns two empty
\* tables, also when the nodes had already been loaded.
C10_LoadFailureEmptiesBoth ==
    (pc = "returned")
    => /\ result.kind = "return"
       /\ file.status # "ok"
             => result.value = <<EmptyDataFrame, EmptyDataFrame>>

\* Witness of C10: the second loading step failed on a malformed document
\* after the first had loaded a non-empty nodes table.
C10_Witness ==
    /\ pc = "returned"
    /\ file.status = "malformed"
    /\ df_nodes.rows # <<>>
    /\ result.value = <<EmptyDataFrame, EmptyDataFrame>>

\* ===================================================================
\* get_next_tools, get_previous_tools, get_output_name, get_input_name
\* ===================================================================
NumIoTools == 2
MaxIoConns == 2

IoToolIds == 1..NumIoTools
OriginPorts == {"Output", "True"}
DestinationPorts == {"Input", "Left"}

\* df[df[column] == value]: the rows whose column holds the value, in order.
\* The comparison is elementwise: a null cell equals nothing, None included.
FilterRows(rows, column, value) ==
    SelectSeq(rows, LAMBDA row : row[column] # Null /\ row[column] = value)

\* df[column] of a list of rows.
ColumnOf(rows, column) == [i \in DOMAIN rows |-> rows[i][column]]

\* A unique() that keeps every occurrence.
unique_keep_all(values) == values

\* Series.unique(): the distinct values in order of first appearance.
unique(values) ==
    LET firsts == {i \in DOMAIN values :
                      \A j \in 1..(i - 1) : values[j] # values[i]}
        RECURSIVE Take(_)
        Take(i) == IF i > Len(values) THEN <<>>
                   ELSE (IF i \in firsts THEN <<values[i]>> ELSE <<>>)
                        \o Take(i + 1)
    IN Take(1)

\* str(x) inside an f-string, for a tool id.
IdText(id) == IF id = Null THEN "None" ELSE ToString(id)

\* A name that leaves the port out.
DfName_without_port(id, conn_type) == "df_" \o IdText(id)

\* f"df_{tool_id}_{conn_type}"
DfName(id, conn_type) == "df_" \o IdText(id) \o "_" \o conn_type

get_next_tools(connections, id) ==
    IF ~connections.columns THEN Raise(KeyError)
    ELSE Return(unique(ColumnOf(
             FilterRows(connections.rows, "origin_tool_id", id),
             "destination_tool_id")))

\* Returns the pair (previous_tools, previous_tools_count).
get_previous_tools(connections, id) ==
    IF ~connections.columns THEN Raise(KeyError)
    ELSE LET previous_tools ==
                 unique(ColumnOf(
                     FilterRows(connections.rows, "destination_tool_id", id),
                     "origin_tool_id"))
         IN Return(<<previous_tools, Len(previous_tools)>>)

\* Output types taken once per connection.
output_types_per_row(filtered) == ColumnOf(filtered, "origin_connection")

\* filtered["origin_connection"].unique()
output_types(filtered) == unique(ColumnOf(filtered, "origin_connection"))

get_output_name(connections, id) ==
    IF ~connections.columns THEN Raise(KeyError)
    ELSE LET filtered == FilterRows(connections.rows, "origin_tool_id", id)
         IN IF filtered = <<>> THEN Return(<<>>)
            ELSE Return([i \in DOMAIN output_types(filtered) |->
                            DfName(id, output_types(filtered)[i])])

\* Incoming rows with repeated rows merged.
incoming_rows_merged(connections, id) ==
    unique(FilterRows(connections.rows, "destination_tool_id", id))

\* The rows the loop of get_input_name iterates over.
incoming_rows(connections, id) ==
    FilterRows(connections.rows, "destination_tool_id", id)

get_input_name(connections, id) ==
    IF ~connections.columns THEN Raise(KeyError)
    ELSE Return([i \in DOMAIN incoming_rows(connections, id) |->
                    <<DfName(incoming_rows(connections, id)[i].origin_tool_id,
                             incoming_rows(connections, id)[i].origin_connection),
                      incoming_rows(connections, id)[i].destination_connection>>])

\* The connection tables queried: every list of at most MaxIoConns rows
\* over the tools and ports, the list without rows being the column-less
\* table load_alteryx_connections returns for a workflow without
\* connections.
IoRows ==
    {ConnectionRow(o, oc, d, dc) :
        o \in IoToolIds, oc \in OriginPorts, d \in IoToolIds, dc \in DestinationPorts}

IoConnectionTables == {DataFrame(rows) : rows \in SeqsUpTo(IoRows, MaxIoConns)}

InitIO ==
    /\ frame = <<>>
    /\ uploaded_file = <<>>
    /\ session_state = <<>>
    /\ pc = "ready"
    /\ df_nodes = EmptyDataFrame
    /\ df_connections \in IoConnectionTables
    /\ tool_id \in IoToolIds
    /\ random_tool_ids = <<>>
    /\ execution_sequence = <<>>
    /\ result = NoResult
    /\ first_result = NoResult
    /\ file = "none"

CallGetNextTools ==
    /\ pc = "ready"
    /\ pc' = "next_tools"
    /\ result' = get_next_tools(df_connections, tool_id)
    /\ UNCHANGED <<df_nodes, df_connections, random_tool_ids,
                   execution_sequence, first_result, file, tool_id,
                   uploaded_file, session_state, frame>>

CallGetPreviousTools ==
    /\ pc = "ready"
    /\ pc' = "previous_tools"
    /\ result' = get_previous_tools(df_connections, tool_id)
    /\ UNCHANGED <<df_nodes, df_connections, random_tool_ids,
                   execution_sequence, first_result, file, tool_id,
                   uploaded_file, session_state, frame>>

CallGetOutputName ==
    /\ pc = "ready"
    /\ pc' = "output_name"
    /\ result' = get_output_name(df_connections, tool_id)
    /\ UNCHANGED <<df_nodes, df_connections, random_tool_ids,
                   execution_sequence, first_result, file, tool_id,
                   uploaded_file, session_state, frame>>

CallGetInputName ==
    /\ pc = "ready"
    /\ pc' = "input_name"
    /\ result' = get_input_name(df_connections, tool_id)
    /\ UNCHANGED <<df_nodes, df_connections, random_tool_ids,
                   execution_sequence, first_result, file, tool_id,
                   uploaded_file, session_state, frame>>

NextIO ==
    \/ CallGetNextTools
    \/ CallGetPreviousTools
    \/ CallGetOutputName
    \/ CallGetInputName

SpecIO == InitIO /\ [][NextIO]_vars

\* The rows leaving and entering the queried tool.
OutgoingRows == {i \in DOMAIN df_connections.rows :
                    df_connections.rows[i].origin_tool_id = tool_id}
IncomingRows == {i \in DOMAIN df_connections.rows :
                    df_connections.rows[i].destination_tool_id = tool_id}

NoDuplicates(s) == \A i, j \in DOMAIN s : s[i] = s[j] => i = j

\* C11: on a table that has its columns, get_previous_tools returns the
\* distinct origins of the connections that enter the tool directly (with
\* their count) and get_next_tools the distinct destinations of the
\* connections that leave it directly: nothing transitive, and a
\* neighbour reached through two ports is listed once.
C11_DirectNeighboursOnce ==
    /\ (pc = "next_tools" /\ df_connections.columns)
       => /\ result.kind = "return"
          /\ NoDuplicates(result.value)
          /\ Range(result.value) =
                {df_connections.rows[i].destination_tool_id : i \in OutgoingRows}
    /\ (pc = "previous_tools" /\ df_connections.columns)
       => /\ result.kind = "return"
          /\ NoDuplicates(result.value[1])
          /\ Range(result.value[1]) =
                {df_connections.rows[i].origin_tool_id : i \in IncomingRows}
          /\ result.value[2] = Len(result.value[1])

\* Witness of C11: two connections on two ports lead from the tool to the
\* same neighbour, which is listed once.
C11_Witness ==
    /\ pc = "next_tools"
    /\ Cardinality(OutgoingRows) = 2
    /\ \A i, j \in OutgoingRows :
          /\ df_connections.rows[i].destination_tool_id =
                df_connections.rows[j].destination_tool_id
          /\ i # j => df_connections.rows[i].origin_connection #
                         df_connections.rows[j].origin_connection
    /\ result.kind = "return"
    /\ Len(result.value) = 1
    /\ result.value[1] # tool_id

\* C12: a tool without incoming connection has no predecessors, a tool
\* without outgoing connection has no successors and no output name, and
\* none of the three queries fails, on every table the loader produces,
\* the table of a workflow without connections included.
C12_NoConnectionNoNeighbours ==
    /\ (pc = "previous_tools")
       => /\ result.kind = "return"
          /\ IncomingRows = {} => result.value = <<(<<>>), 0>>
    /\ (pc = "next_tools")
       => /\ result.kind = "return"
          /\ OutgoingRows = {} => result.value = <<>>
    /\ (pc = "output_name")
       => /\ result.kind = "return"
          /\ OutgoingRows = {} => result.value = <<>>

\* The origin ports of the connections leaving the queried tool.
OutgoingPorts == {df_connections.rows[i].origin_connection : i \in OutgoingRows}

\* The first row that leaves the queried tool on the port.
FirstRowOn(port) ==
    CHOOSE i \in OutgoingRows :
        /\ df_connections.rows[i].origin_connection = port
        /\ \A j \in OutgoingRows :
              df_connections.rows[j].origin_connection = port => i <= j

\* C13: on a table that has its columns, get_output_name returns one name
\* df_<tool id>_<port> per distinct origin port of the connections leaving
\* the tool, without duplicates and in the order in which the ports first
\* appear: as many names as distinct ports.
C13_OneNamePerOriginPort ==
    (pc = "output_name" /\ df_connections.columns)
    => /\ result.kind = "return"
       /\ Len(result.value) = Cardinality(OutgoingPorts)
       /\ NoDuplicates(result.value)
       /\ \E ports \in [DOMAIN result.value -> OutgoingPorts] :
             /\ \A i \in DOMAIN ports :
                   result.value[i] =
                       "df_" \o ToString(tool_id) \o "_" \o ports[i]
             /\ \A i, j \in DOMAIN ports :
                   i < j => FirstRowOn(ports[i]) < FirstRowOn(ports[j])

\* Witness of C13: two connections leave the tool for two successors on
\* one port, and one name is returned.
C13_Witness ==
    /\ pc = "output_name"
    /\ Cardinality(OutgoingRows) = 2
    /\ Cardinality({df_connections.rows[i].destination_tool_id :
                       i \in OutgoingRows}) = 2
    /\ Cardinality(OutgoingPorts) = 1
    /\ result.kind = "return"
    /\ Len(result.value) = 1

\* The k-th row that enters the queried tool, in row order.
KthIncoming(k) ==
    CHOOSE i \in IncomingRows : Cardinality({j \in IncomingRows : j <= i}) = k

\* C15: on a table that has its columns, get_input_name returns one pair
\* [name of the source output, destination port] per connection entering
\* the tool, in row order and without merging equal pairs.
C15_OnePairPerIncomingRow ==
    (pc = "input_name" /\ df_connections.columns)
    => /\ result.kind = "return"
       /\ Len(result.value) = Cardinality(IncomingRows)
       /\ \A k \in DOMAIN result.value :
             result.value[k] =
                 <<"df_"
                      \o ToString(df_connections.rows[KthIncoming(k)].origin_tool_id)
                      \o "_"
                      \o df_connections.rows[KthIncoming(k)].origin_connection,
                   df_connections.rows[KthIncoming(k)].destination_connection>>

\* Witness of C15: two equal connections enter the tool and two equal
\* pairs are returned.
C15_Witness ==
    /\ pc = "input_name"
    /\ Cardinality(IncomingRows) = 2
    /\ result.kind = "return"
    /\ Len(result.value) = 2
    /\ result.value[1] = result.value[2]

\* ===================================================================
\* The workflow A -> B, B -> C, B -> D
\* ===================================================================
\* The tools A, B, C, D as ids and the three connections in table order.
ScenarioPairs == <<(<<1, 2>>), (<<2, 3>>), (<<2, 4>>)>>

ScenarioTools == UNION {{ScenarioPairs[i][1], ScenarioPairs[i][2]} : i \in DOMAIN ScenarioPairs}

\* The tool B: the destination of the first connection.
ScenarioB == ScenarioPairs[1][2]

\* The connection tables of the scenario: the three connections with every
\* assignment of origin and destination ports.
ScenarioTables ==
    {DataFrame([i \in DOMAIN ScenarioPairs |->
                   ConnectionRow(ScenarioPairs[i][1], oc[i],
                                 ScenarioPairs[i][2], dc[i])]) :
        oc \in [DOMAIN ScenarioPairs -> OriginPorts],
        dc \in [DOMAIN ScenarioPairs -> DestinationPorts]}

InitScenario ==
    /\ frame = <<>>
    /\ uploaded_file = <<>>
    /\ session_state = <<>>
    /\ pc = "ready"
    /\ df_nodes = DataFrameWithColumns(
                      [i \in 1..Cardinality(ScenarioTools) |-> NodeRow(i)])
    /\ df_connections \in ScenarioTables
    /\ tool_id \in ScenarioTools
    /\ random_tool_ids = <<>>
    /\ execution_sequence = <<>>
    /\ result = NoResult
    /\ first_result = NoResult
    /\ file = "none"

SpecScenario == InitScenario /\ [][NextIO]_vars

\* C14 as stated: the output names of B are two for every port assignment
\* of its two outgoing connections.
C14_ScenarioTwoNames ==
    (pc = "output_name" /\ tool_id = ScenarioB)
    => /\ result.kind = "return"
       /\ Len(result.value) = 2

\* C14, amended: the output names of B are one per distinct origin port of
\* its two outgoing connections: two names when the connections to C and D
\* leave on different ports, one name when they leave on the same port.
C14_ScenarioNamesPerPort ==
    (pc = "output_name" /\ tool_id = ScenarioB)
    => LET toC == df_connections.rows[2].origin_connection
           toD == df_connections.rows[3].origin_connection
       IN /\ result.kind = "return"
          /\ toC # toD
                => result.value = <<"df_2_" \o toC, "df_2_" \o toD>>
          /\ toC = toD
                => result.value = <<"df_2_" \o toC>>

\* Witness of C14: both connections of B leave on the same port and one
\* name is derived.
C14_Witness ==
    /\ pc = "output_name"
    /\ tool_id = ScenarioB
    /\ df_connections.rows[2].origin_connection =
          df_connections.rows[3].origin_connection
    /\ result.kind = "return"
    /\ Len(result.value) = 1

\* ===================================================================
\* extract_container_children, clean_container_children
\* ===================================================================
NumCNodes == 2
MaxTokens == 3

\* The Plugin attributes of the nodes: a filter, a tool container, a
\* browse tool, and a node without GuiSettings.
Plugins == {Some(FilterPlugin), Some(ContainerPlugin), Some(BrowsePlugin), NoAttr}

\* The tool types load_alteryx_nodes writes for the tool container and the
\* browse tool.
ContainerType == NormalizeToolType(Some(ContainerPlugin))
BrowseType == NormalizeToolType(Some(BrowsePlugin))
LoadedToolTypes == {NormalizeToolType(p) : p \in Plugins}

\* re.findall(r'ToolID="(\d+)"', container_text): the digit tokens, in order.
found_ids(text) == SelectSeq(text, LAMBDA tid : tid # EmptyStr /\ tid # Null)

\* df_nodes["tool_type"].str.lower() over the types of the tables.
LoweredToolTypes ==
    [t \in LoadedToolTypes \ {NoAttr} |-> str_lower(t[1])]

\* df_nodes["tool_type"].str.lower() == "toolcontainer"; None gives False.
IsContainerRow(row) ==
    /\ row.tool_type # NoAttr
    /\ LoweredToolTypes[row.tool_type] = "toolcontainer"

\* A child list that keeps the container's own id.
child_ids_with_own(found, container_id) == found

\* [tid for tid in found_ids if tid != container_id]
child_ids(found, container_id) ==
    SelectSeq(found, LAMBDA tid : tid # container_id)

ContainerEntry(container_id, child_tools) ==
    [container_id |-> container_id, child_tools |-> child_tools]

\* The rows of the table extract_container_children returns.
extract_container_children(nodes) ==
    LET container_rows == SelectSeq(nodes.rows, IsContainerRow)
    IN [i \in DOMAIN container_rows |->
           ContainerEntry(container_rows[i].tool_id,
                          child_ids(found_ids(container_rows[i].text),
                                    container_rows[i].tool_id))]

\* df_nodes[df_nodes["tool_id"] == cid]
matching(nodes, cid) == SelectSeq(nodes.rows, LAMBDA row : row.tool_id = cid)

\* A cleaning that drops a child without a row in the nodes table.
KeepChild_known_only(nodes, cid) ==
    /\ matching(nodes, cid) # <<>>
    /\ matching(nodes, cid)[1].tool_type
          \notin {Some("Toolcontainer"), Some("BrowseV2")}

\* Whether the loop of clean_container_children appends cid.
KeepChild(nodes, cid) ==
    IF matching(nodes, cid) # <<>>
    THEN matching(nodes, cid)[1].tool_type
             \notin {Some("Toolcontainer"), Some("BrowseV2")}
    ELSE TRUE

\* The rows of the table clean_container_children returns.
clean_container_children(containers, nodes) ==
    [i \in DOMAIN containers |->
        ContainerEntry(containers[i].container_id,
                       SelectSeq(containers[i].child_tools,
                                 LAMBDA cid : KeepChild(nodes, cid)))]

\* The ToolID attributes written in the payloads: the ids of the table,
\* one id beyond it, and an attribute that holds no digits.
PayloadTokens == 1..(NumCNodes + 1) \cup {EmptyStr}

NonDecreasing(f) == \A i, j \in DOMAIN f : i <= j => f[i] <= f[j]

\* The payload of row r when the ToolID attributes tokens are written, in
\* this order, in the payloads of the rows owner.
PayloadOf(tokens, owner, r) ==
    SelectSeq([i \in DOMAIN tokens |-> IF owner[i] = r THEN tokens[i] ELSE Null],
              LAMBDA t : t # Null)

\* A node table of k rows: ids 1..k as load_alteryx_nodes writes them for
\* a document with unique ids, and types as it normalises them.
NodeTable(k, types, tokens, owner) ==
    DataFrameWithColumns(
        [r \in 1..k |-> NodeRecord(r, types[r], PayloadOf(tokens, owner, r))])

\* The node tables: at most NumCNodes rows and at most MaxTokens ToolID
\* attributes in all, written in the payloads of the tool containers,
\* which are the nodes that have nodes nested in them.
InitContainers ==
    /\ frame = <<>>
    /\ uploaded_file = <<>>
    /\ session_state = <<>>
    /\ pc = "ready"
    /\ \E k \in 0..NumCNodes : \E types \in [1..k -> LoadedToolTypes] :
          \E n \in 0..MaxTokens : \E tokens \in [1..n -> PayloadTokens] :
             \E owner \in [1..n -> {r \in 1..k : types[r] = ContainerType}] :
                /\ NonDecreasing(owner)
                /\ df_nodes = NodeTable(k, types, tokens, owner)
    /\ df_connections = EmptyDataFrame
    /\ random_tool_ids = <<>>
    /\ execution_sequence = <<>>
    /\ result = NoResult
    /\ first_result = NoResult
    /\ file = "none"
    /\ tool_id = Null

\* df_containers = parser.extract_container_children(df_nodes)
ExtractContainerChildren ==
    /\ pc = "ready"
    /\ pc' = "extracted"
    /\ first_result' = Return(extract_container_children(df_nodes))
    /\ UNCHANGED <<df_nodes, df_connections, random_tool_ids,
                   execution_sequence, result, file, tool_id,
                   uploaded_file, session_state, frame>>

\* df_containers = parser.clean_container_children(df_containers, df_nodes)
CleanContainerChildren ==
    /\ pc = "extracted"
    /\ pc' = "cleaned"
    /\ result' = Return(clean_container_children(first_result.value, df_nodes))
    /\ UNCHANGED <<df_nodes, df_connections, random_tool_ids,
                   execution_sequence, first_result, file, tool_id,
                   uploaded_file, session_state, frame>>

NextContainers == ExtractContainerChildren \/ CleanContainerChildren

SpecContainers == InitContainers /\ [][NextContainers]_vars

\* The row of the nodes table with the id, when there is one.
HasRow(id) == \E r \in DOMAIN df_nodes.rows : df_nodes.rows[r].tool_id = id
TypeOf(id) ==
    df_nodes.rows[CHOOSE r \in DOMAIN df_nodes.rows :
                     df_nodes.rows[r].tool_id = id].tool_type

\* C16: after extraction and cleaning, no child list holds the id of a
\* loaded node that is a tool container or a browse tool, the types being
\* the ones load_alteryx_nodes writes for these plugins.
C16_NoContainerOrBrowseChild ==
    (pc = "cleaned")
    => \A e \in DOMAIN result.value :
          \A c \in DOMAIN result.value[e].child_tools :
             HasRow(result.value[e].child_tools[c])
             => TypeOf(result.value[e].child_tools[c])
                   \notin {NormalizeToolType(Some(ContainerPlugin)),
                           NormalizeToolType(Some(BrowsePlugin))}

\* The digit tokens of the payload of row r, and the rows that are tool
\* containers, whatever the case of the letters of their type.
DigitTokens(r) ==
    SelectSeq(df_nodes.rows[r].text, LAMBDA t : t \in 1..(NumCNodes + 1))
ContainerRows ==
    {r \in DOMAIN df_nodes.rows :
        df_nodes.rows[r].tool_type \in {Some("Toolcontainer"), Some("ToolContainer")}}

\* The e-th tool container row, in row order.
KthContainer(e) ==
    CHOOSE r \in ContainerRows : Cardinality({q \in ContainerRows : q <= r}) = e

\* s without the occurrences of x, computed from the front.
RECURSIVE Without(_, _)
Without(s, x) ==
    IF s = <<>> THEN <<>>
    ELSE IF Head(s) = x THEN Without(Tail(s), x)
    ELSE <<Head(s)>> \o Without(Tail(s), x)

\* C17: extract_container_children returns one entry per tool container
\* row, in row order, and none for a row of another type; the child list
\* of an entry is the sequence of the digit tokens of the payload without
\* the occurrences of the container's own id, nothing else removed.
C17_ChildrenAreTokensWithoutOwnId ==
    (pc = "extracted")
    => /\ first_result.kind = "return"
       /\ Len(first_result.value) = Cardinality(ContainerRows)
       /\ \A e \in DOMAIN first_result.value :
             /\ first_result.value[e].container_id =
                   df_nodes.rows[KthContainer(e)].tool_id
             /\ first_result.value[e].child_tools =
                   Without(DigitTokens(KthContainer(e)),
                           df_nodes.rows[KthContainer(e)].tool_id)

\* Witness of C17: a container whose payload holds its own id and two
\* other ids, which are its child list.
C17_Witness ==
    /\ pc = "extracted"
    /\ \E e \in DOMAIN first_result.value :
          /\ Len(DigitTokens(KthContainer(e))) = 3
          /\ DigitTokens(KthContainer(e))[1] = first_result.value[e].container_id
          /\ first_result.value[e].child_tools =
                Tail(DigitTokens(KthContainer(e)))
          /\ Len(first_result.value[e].child_tools) = 2
    /\ Cardinality(DOMAIN df_nodes.rows \ ContainerRows) > 0

\* s is t with some elements left out.
RECURSIVE IsSubsequence(_, _)
IsSubsequence(s, t) ==
    IF s = <<>> THEN TRUE
    ELSE IF t = <<>> THEN FALSE
    ELSE IF Head(s) = Head(t) THEN IsSubsequence(Tail(s), Tail(t))
    ELSE IsSubsequence(s, Tail(t))

\* C18: clean_container_children does not fail; it returns one entry per
\* entry it is given, for the same container and in the same order; each
\* cleaned list is a subsequence of the raw list, and keeps every
\* occurrence of a child id that has no row in the nodes table.
C18_UnknownChildrenKept ==
    (pc = "cleaned")
    => /\ result.kind = "return"
       /\ Len(result.value) = Len(first_result.value)
       /\ \A e \in DOMAIN result.value :
             /\ result.value[e].container_id = first_result.value[e].container_id
             /\ IsSubsequence(result.value[e].child_tools,
                              first_result.value[e].child_tools)
             /\ SelectSeq(result.value[e].child_tools, LAMBDA c : ~HasRow(c))
                   = SelectSeq(first_result.value[e].child_tools,
                               LAMBDA c : ~HasRow(c))

\* Witness of C18: a raw list holds an id without row between two ids of
\* tool containers; cleaning leaves the id without row alone.
C18_Witness ==
    /\ pc = "cleaned"
    /\ \E e \in DOMAIN result.value :
          /\ Len(first_result.value[e].child_tools) = 3
          /\ ~HasRow(first_result.value[e].child_tools[2])
          /\ result.value[e].child_tools = <<first_result.value[e].child_tools[2]>>

\* ===================================================================
\* load_alteryx_nodes and load_alteryx_connections on parsed documents
\* ===================================================================
MaxXmlNodes == 3
MaxXmlEntries == 2

\* The Node elements nested directly in node i, in document order, for
\* nodes i+1..n whose parent is given by parent (0: directly under Nodes).
RECURSIVE NodesUnder(_, _, _, _, _, _)
NodesUnder(i, from, n, parent, ids, plugins) ==
    IF from > n THEN <<>>
    ELSE (IF parent[from] = i
          THEN <<NodeElement(ids[from], plugins[from],
                             NodesUnder(from, from + 1, n, parent, ids, plugins))>>
          ELSE <<>>)
         \o NodesUnder(i, from + 1, n, parent, ids, plugins)

\* A workflow of n tools nested in each other, without Connections section.
NestedDocument(n, parent, ids, plugins) ==
    [status |-> "ok",
     root |-> RootElement(NodesUnder(0, 1, n, parent, ids, plugins), <<>>)]

\* A workflow of two tools with the given connection entries.
ConnectedDocument(endpoints) ==
    [status |-> "ok",
     root |-> RootElement(
         [i \in DocTools |-> NodeElement(i, Some(FilterPlugin), <<>>)],
         <<ConnectionsElement(endpoints)>>)]

\* An endpoint of a connection entry: no element, an element without
\* ToolID, or an element with the ToolID of a tool.
EndpointChoices == {<<>>, <<Null>>} \cup {<<i>> : i \in DocTools}

\* The ToolID attribute of the i-th Node: none, empty, its own number, or
\* the number of the first Node again.
NodeIdChoices(i) == {Null, EmptyStr, i, 1}

InitXml ==
    /\ frame = <<>>
    /\ uploaded_file = <<>>
    /\ session_state = <<>>
    /\ pc = "ready"
    /\ \/ \E n \in 0..MaxXmlNodes :
             \E parent \in [1..n -> 0..MaxXmlNodes] :
                \E ids \in [1..n -> {Null, EmptyStr} \cup 1..MaxXmlNodes] :
                   \E plugins \in [1..n -> {Some(FilterPlugin), NoGui}] :
                      /\ \A i \in 1..n : parent[i] < i /\ ids[i] \in NodeIdChoices(i)
                      /\ file = NestedDocument(n, parent, ids, plugins)
       \/ \E endpoints \in SeqsUpTo(EndpointChoices \X EndpointChoices, MaxXmlEntries) :
             file = ConnectedDocument(endpoints)
    /\ df_nodes = EmptyDataFrame
    /\ df_connections = EmptyDataFrame
    /\ random_tool_ids = <<>>
    /\ execution_sequence = <<>>
    /\ result = NoResult
    /\ first_result = NoResult
    /\ tool_id = Null

CallLoadNodes ==
    /\ pc = "ready"
    /\ pc' = "nodes"
    /\ result' = load_alteryx_nodes(file)
    /\ UNCHANGED <<df_nodes, df_connections, random_tool_ids,
                   execution_sequence, first_result, file, tool_id,
                   uploaded_file, session_state, frame>>

CallLoadConnections ==
    /\ pc = "ready"
    /\ pc' = "connections"
    /\ result' = load_alteryx_connections(file)
    /\ UNCHANGED <<df_nodes, df_connections, random_tool_ids,
                   execution_sequence, first_result, file, tool_id,
                   uploaded_file, session_state, frame>>

NextXml == CallLoadNodes \/ CallLoadConnections

SpecXml == InitXml /\ [][NextXml]_vars

\* The positions of the elements of a tree, each the sequence of child
\* indices that leads to it from the root, and the element at a position.
RECURSIVE PathsOf(_)
PathsOf(element) ==
    {<<>>} \cup UNION {{<<i>> \o p : p \in PathsOf(element.children[i])} :
                          i \in DOMAIN element.children}

RECURSIVE ElementAt(_, _)
ElementAt(element, path) ==
    IF path = <<>> THEN element
    ELSE ElementAt(element.children[Head(path)], Tail(path))

\* Document order: p is an ancestor of q, or comes first where they part.
Before(p, q) ==
    \E k \in 1..Len(q) :
        /\ k <= Len(p) + 1
        /\ \A j \in 1..(k - 1) : p[j] = q[j]
        /\ k = Len(p) + 1 \/ p[k] < q[k]

\* The positions of the tool elements of the document that carry an id.
ToolPaths ==
    {p \in PathsOf(file.root) :
        /\ ElementAt(file.root, p).tag = "Node"
        /\ ElementAt(file.root, p).ToolID \in 1..MaxXmlNodes}

\* C19: load_alteryx_nodes returns one row per tool element that carries
\* an id, in document order, tool elements nested in other tool elements
\* included; a tool element without id gives no row and the ones nested
\* below it give theirs; with unique ids there is one row per id.
C19_OneRowPerToolElementWithId ==
    (pc = "nodes")
    => /\ result.kind = "return"
       /\ Len(result.value.rows) = Cardinality(ToolPaths)
       /\ \A p \in ToolPaths :
             result.value.rows[1 + Cardinality({q \in ToolPaths : Before(q, p)})].tool_id
                 = ElementAt(file.root, p).ToolID
       /\ (\A p, q \in ToolPaths :
              ElementAt(file.root, p).ToolID = ElementAt(file.root, q).ToolID => p = q)
          => NoDuplicates(ColumnOf(result.value.rows, "tool_id"))

\* Witness of C19: a tool element without id holds a tool element with an
\* id, which holds another one; the table has their two rows.
C19_Witness ==
    /\ pc = "nodes"
    /\ \E p, q, r \in PathsOf(file.root) :
          /\ Before(p, q) /\ Before(q, r)
          /\ Len(p) < Len(q) /\ Len(q) < Len(r)
          /\ ElementAt(file.root, p).tag = "Node"
          /\ ElementAt(file.root, p).ToolID = Null
          /\ q \in ToolPaths /\ r \in ToolPaths
    /\ result.kind = "return"
    /\ Len(result.value.rows) = 2

\* The connection entries of the document, in document order, and whether
\* an entry has a child element with the tag.
ConnectionEntries ==
    LET sections == {i \in DOMAIN file.root.children :
                        file.root.children[i].tag = "Connections"}
    IN IF sections = {} THEN <<>>
       ELSE SelectSeq(file.root.children[CHOOSE i \in sections : TRUE].children,
                      LAMBDA e : e.tag = "Connection")

HasChild(element, tag) ==
    \E i \in DOMAIN element.children : element.children[i].tag = tag

ChildOf(element, tag) ==
    element.children[CHOOSE i \in DOMAIN element.children :
                        element.children[i].tag = tag]

\* C20 as stated: every row of the connections table has an origin tool
\* id and a destination tool id.
C20_EveryRowHasBothIds ==
    (pc = "connections")
    => /\ result.kind = "return"
       /\ \A r \in DOMAIN result.value.rows :
             /\ result.value.rows[r].origin_tool_id # Null
             /\ result.value.rows[r].destination_tool_id # Null

\* The entries that have both an Origin and a Destination element.
CompleteEntries ==
    SelectSeq(ConnectionEntries,
              LAMBDA e : HasChild(e, "Origin") /\ HasChild(e, "Destination"))

\* C20, amended: the connections table has one row, in document order,
\* per entry that has both an Origin and a Destination element, and none
\* for an entry that lacks either element; the ids of a row are the ToolID
\* attributes of the two elements, null where an element has no ToolID.
C20_RowPerEntryWithBothElements ==
    (pc = "connections")
    => /\ result.kind = "return"
       /\ Len(result.value.rows) = Len(CompleteEntries)
       /\ \A r \in DOMAIN result.value.rows :
             /\ result.value.rows[r].origin_tool_id =
                   ChildOf(CompleteEntries[r], "Origin").ToolID
             /\ result.value.rows[r].destination_tool_id =
                   ChildOf(CompleteEntries[r], "Destination").ToolID

\* Witness of C20: one entry lacks its Destination element and is skipped,
\* another has an Origin element without ToolID and gives a row whose
\* origin id is null.
C20_Witness ==
    /\ pc = "connections"
    /\ Len(ConnectionEntries) = 2
    /\ \E e \in DOMAIN ConnectionEntries :
          ~HasChild(ConnectionEntries[e], "Destination")
    /\ result.kind = "return"
    /\ Len(result.value.rows) = 1
    /\ result.value.rows[1].origin_tool_id = Null
    /\ result.value.rows[1].destination_tool_id # Null

\* ===================================================================
\* The application: the 'Generate Sequence' handler in two user sessions
\* ===================================================================
\* The two except clauses around the two loading calls, as one call.
load_alteryx_data(doc) ==
    LET nodes == load_alteryx_nodes(doc)
        connections == load_alteryx_connections(doc)
    IN IF nodes.kind = "raise" THEN ExceptHandler(nodes.exception, EmptyDataFrame)
       ELSE IF connections.kind = "raise"
       THEN ExceptHandler(connections.exception, nodes.value)
       ELSE Return(<<nodes.value, connections.value>>)

\* ", ".join(str(tid) for tid in execution_sequence)
RECURSIVE JoinIds(_)
JoinIds(ids) ==
    IF ids = <<>> THEN ""
    ELSE IF Len(ids) = 1 THEN IdText(ids[1])
    ELSE IdText(Head(ids)) \o ", " \o JoinIds(Tail(ids))

\* The user sessions of the application; each runs the script in a thread
\* of its own, and all of them write "uploaded_workflow.yxmd".
Sessions == {"session 1", "session 2"}

\* uploaded_file when nothing is uploaded, and the temporary path before
\* any handler wrote it.
NoFile == [status |-> "none", root |-> NoRoot]

\* The workflows the users upload: two tools connected one way, the same
\* two connected the other way, the two in a cycle, and a malformed file.
AppDocuments ==
    {OkDocument(2, <<(<<1, 2>>)>>),
     OkDocument(2, <<(<<2, 1>>)>>),
     OkDocument(2, <<(<<1, 2>>), (<<2, 1>>)>>),
     MalformedDocument}

\* st.session_state as the script initialises it.
InitialSessionState == [sequence_generated |-> FALSE, sequence_str |-> ""]

Warning == "Please upload a .yxmd file before generating the execution sequence."

InitApp ==
    /\ frame = <<>>
    /\ pc = [s \in Sessions |-> "idle"]
    /\ uploaded_file = [s \in Sessions |-> NoFile]
    /\ session_state = [s \in Sessions |-> InitialSessionState]
    /\ df_nodes = [s \in Sessions |-> EmptyDataFrame]
    /\ df_connections = [s \in Sessions |-> EmptyDataFrame]
    /\ result = [s \in Sessions |-> NoResult]
    /\ file = NoFile
    /\ random_tool_ids = <<>>
    /\ execution_sequence = <<>>
    /\ first_result = NoResult
    /\ tool_id = Null

\* The user selects a workflow file in the uploader; the script reruns.
UploadFile(s) ==
    /\ pc[s] = "idle"
    /\ uploaded_file[s] = NoFile
    /\ \E doc \in AppDocuments :
          uploaded_file' = [uploaded_file EXCEPT ![s] = doc]
    /\ result' = [result EXCEPT ![s] = NoResult]
    /\ UNCHANGED <<pc, df_nodes, df_connections, random_tool_ids,
                   execution_sequence, first_result, file, tool_id,
                   session_state, frame>>

\* The user replaces the uploaded file by another one; the script reruns.
ReplaceUpload(s) ==
    /\ pc[s] = "idle"
    /\ uploaded_file[s] # NoFile
    /\ \E doc \in AppDocuments \ {uploaded_file[s]} :
          uploaded_file' = [uploaded_file EXCEPT ![s] = doc]
    /\ result' = [result EXCEPT ![s] = NoResult]
    /\ UNCHANGED <<pc, df_nodes, df_connections, random_tool_ids,
                   execution_sequence, first_result, file, tool_id,
                   session_state, frame>>

\* The user presses 'Generate Sequence': a warning without upload, else
\* the upload is written to the temporary path.
PressGenerateSequence(s) ==
    /\ pc[s] = "idle"
    /\ \/ /\ uploaded_file[s] = NoFile
          /\ result' = [result EXCEPT ![s] = Return(Warning)]
          /\ UNCHANGED <<pc, file, frame>>
       \/ /\ uploaded_file[s] # NoFile
          /\ file' = uploaded_file[s]
          /\ pc' = [pc EXCEPT ![s] = "written"]
          /\ result' = [result EXCEPT ![s] = NoResult]
    /\ UNCHANGED <<df_nodes, df_connections, random_tool_ids,
                   execution_sequence, first_result, tool_id,
                   uploaded_file, session_state, frame>>

\* load_alteryx_data, first parse of the temporary path.
HandlerLoadNodes(s) ==
    /\ pc[s] = "written"
    /\ LET r == load_alteryx_nodes(file)
       IN \/ /\ r.kind = "return"
             /\ df_nodes' = [df_nodes EXCEPT ![s] = r.value]
             /\ pc' = [pc EXCEPT ![s] = "nodes_loaded"]
             /\ UNCHANGED df_connections
          \/ /\ r.kind = "raise"
             /\ df_nodes' = [df_nodes EXCEPT ![s] =
                                ExceptHandler(r.exception, EmptyDataFrame).value[1]]
             /\ df_connections' = [df_connections EXCEPT ![s] =
                                ExceptHandler(r.exception, EmptyDataFrame).value[2]]
             /\ pc' = [pc EXCEPT ![s] = "loaded"]
    /\ UNCHANGED <<random_tool_ids, execution_sequence, result, first_result,
                   file, tool_id, uploaded_file, session_state, frame>>

\* load_alteryx_data, second parse of the temporary path.
HandlerLoadConnections(s) ==
    /\ pc[s] = "nodes_loaded"
    /\ LET r == load_alteryx_connections(file)
       IN \/ /\ r.kind = "return"
             /\ df_connections' = [df_connections EXCEPT ![s] = r.value]
             /\ UNCHANGED df_nodes
          \/ /\ r.kind = "raise"
             /\ df_nodes' = [df_nodes EXCEPT ![s] =
                                ExceptHandler(r.exception, df_nodes[s]).value[1]]
             /\ df_connections' = [df_connections EXCEPT ![s] =
                                ExceptHandler(r.exception, df_nodes[s]).value[2]]
    /\ pc' = [pc EXCEPT ![s] = "loaded"]
    /\ UNCHANGED <<random_tool_ids, execution_sequence, result, first_result,
                   file, tool_id, uploaded_file, session_state, frame>>

\* get_execution_order and the two writes to st.session_state; an
\* exception ends the script run and leaves st.session_state as it was.
HandlerGetExecutionOrder(s) ==
    /\ pc[s] = "loaded"
    /\ LET r == get_execution_order(df_nodes[s], df_connections[s])
       IN /\ result' = [result EXCEPT ![s] = r]
          /\ session_state' =
                IF r.kind = "return"
                THEN [session_state EXCEPT ![s] =
                         [sequence_generated |-> TRUE,
                          sequence_str |-> JoinIds(r.value)]]
                ELSE session_state
    /\ pc' = [pc EXCEPT ![s] = "idle"]
    /\ UNCHANGED <<df_nodes, df_connections, random_tool_ids,
                   execution_sequence, first_result, file, tool_id,
                   uploaded_file, frame>>

\* The script reruns without a button pressed: what the last run showed
\* of its handler is gone, st.session_state stays.
Rerun(s) ==
    /\ pc[s] = "idle"
    /\ result[s] # NoResult
    /\ result' = [result EXCEPT ![s] = NoResult]
    /\ UNCHANGED <<pc, df_nodes, df_connections, random_tool_ids,
                   execution_sequence, first_result, file, tool_id,
                   uploaded_file, session_state, frame>>

NextApp ==
    \E s \in Sessions :
        \/ UploadFile(s)
        \/ ReplaceUpload(s)
        \/ PressGenerateSequence(s)
        \/ HandlerLoadNodes(s)
        \/ HandlerLoadConnections(s)
        \/ HandlerGetExecutionOrder(s)
        \/ Rerun(s)

SpecApp == InitApp /\ [][NextApp]_vars

\* C21: the 'Generate Sequence' handler fails in get_execution_order only
\* when the connections it loaded contain a cycle; on the two empty tables
\* of a malformed document it returns the empty order.
C21_FailsOnlyOnCycle ==
    \A s \in Sessions :
        (pc[s] = "idle" /\ result[s].kind = "raise")
        => HasCycle(df_connections[s])

\* The execution order of a workflow file, loaded and ordered in one go.
OrderOfFile(doc) ==
    get_execution_order(load_alteryx_data(doc).value[1],
                        load_alteryx_data(doc).value[2])

\* C22: whenever sequence_generated is set in a session, the stored
\* sequence_str is the execution order of the file the session has
\* uploaded now.
C22_SequenceIsOfCurrentFile ==
    \A s \in Sessions :
        session_state[s].sequence_generated
        => /\ uploaded_file[s] # NoFile
           /\ OrderOfFile(uploaded_file[s]).kind = "return"
           /\ session_state[s].sequence_str =
                 JoinIds(OrderOfFile(uploaded_file[s]).value)

\* C25: the tables a handler has loaded are the nodes and connections of
\* the file uploaded in its own session.
C25_HandlerLoadsOwnUpload ==
    \A s \in Sessions :
        (pc[s] = "loaded")
        => /\ df_nodes[s] = load_alteryx_data(uploaded_file[s]).value[1]
           /\ df_connections[s] = load_alteryx_data(uploaded_file[s]).value[2]

\* ===================================================================
\* create_tool_connection_graph: the levels of the layout
\* ===================================================================
\* The edge loop: an edge is added when both ends are nodes of the graph.
RECURSIVE AddDrawnEdges(_, _)
AddDrawnEdges(G, rows) ==
    IF rows = <<>> THEN G
    ELSE LET source == Str(Head(rows).origin_tool_id)
             target == Str(Head(rows).destination_tool_id)
         IN AddDrawnEdges(
                IF source \in Range(G.nodes) /\ target \in Range(G.nodes)
                THEN add_edge(G, source, target) ELSE G,
                Tail(rows))

\* The node loop: one graph node per row, named str(tool_id).
RECURSIVE AddDrawnNodes(_, _)
AddDrawnNodes(G, rows) ==
    IF rows = <<>> THEN G
    ELSE AddDrawnNodes(add_node(G, Str(Head(rows).tool_id)), Tail(rows))

\* A queue entry (node, level).
QueueEntry(node, level) == [node |-> node, level |-> level]

\* A level for the neighbours that is the level of the node itself.
NeighbourLevel_same(level) == level

\* The level given to the neighbours of a node: level + 1.
NeighbourLevel(level) == level + 1

\* The while loop of the breadth-first search: the (node, level) entries
\* in the order in which levels[level].append(node) runs.
RECURSIVE BreadthFirst(_, _, _, _)
BreadthFirst(G, queue, visited, placed) ==
    IF queue = <<>> THEN placed
    ELSE LET node == Head(queue).node
             level == Head(queue).level
         IN IF node \in visited
            THEN BreadthFirst(G, Tail(queue), visited, placed)
            ELSE LET unvisited ==
                         SelectSeq(neighbors(G.edges, node),
                                   LAMBDA nb : nb \notin visited \cup {node})
                 IN BreadthFirst(
                        G,
                        Tail(queue) \o [i \in DOMAIN unvisited |->
                                           QueueEntry(unvisited[i],
                                                      NeighbourLevel(level))],
                        visited \cup {node},
                        Append(placed, QueueEntry(node, level)))

\* max(levels.keys()) if levels else 0
MaxLevel(placed) ==
    IF placed = <<>> THEN 0
    ELSE CHOOSE l \in {placed[i].level : i \in DOMAIN placed} :
             \A i \in DOMAIN placed : placed[i].level <= l

IndexError == "IndexError"

\* The try block: the entries (node, level) of the layout, the nodes the
\* search did not reach being put together one level after the last.
ComputeLevels(G) ==
    LET with_no_input == SelectSeq(G.nodes, LAMBDA n : in_degree_of(G, n) = 0)
        source_nodes == IF with_no_input = <<>> THEN <<G.nodes[1]>>
                        ELSE with_no_input
        placed == BreadthFirst(
                      G,
                      [i \in DOMAIN source_nodes |-> QueueEntry(source_nodes[i], 0)],
                      {}, <<>>)
        remaining_nodes ==
            SelectSeq(G.nodes,
                      LAMBDA n : \A i \in DOMAIN placed : placed[i].node # n)
    IN IF G.nodes = <<>> THEN Raise(IndexError)
       ELSE Return(placed \o [i \in DOMAIN remaining_nodes |->
                                 QueueEntry(remaining_nodes[i],
                                            MaxLevel(placed) + 1)])

\* The graph and the layout: the levels, or the kamada_kawai_layout of
\* the except clause, which has no levels.
create_tool_connection_graph(nodes, connections) ==
    LET G == AddDrawnEdges(AddDrawnNodes(EmptyGraph, nodes.rows), connections.rows)
        levels == ComputeLevels(G)
    IN IF levels.kind = "raise"
       THEN Return([G |-> G, layout |-> "kamada_kawai", levels |-> <<>>])
       ELSE Return([G |-> G, layout |-> "levels", levels |-> levels.value])

\* The node tables drawn: ids 1..k, every tool a filter.
DrawnNodeTables ==
    {DataFrameWithColumns([i \in 1..k |-> NodeRecord(i, Some("Filter"), <<>>)]) :
        k \in 0..NumTools}

InitLayout ==
    /\ frame = <<>>
    /\ uploaded_file = <<>>
    /\ session_state = <<>>
    /\ pc = "ready"
    /\ df_nodes \in DrawnNodeTables
    /\ df_connections \in ConnectionTables
    /\ random_tool_ids = <<>>
    /\ execution_sequence = <<>>
    /\ result = NoResult
    /\ first_result = NoResult
    /\ file = "none"
    /\ tool_id = Null

CallCreateToolConnectionGraph ==
    /\ pc = "ready"
    /\ pc' = "drawn"
    /\ result' = create_tool_connection_graph(df_nodes, df_connections)
    /\ UNCHANGED <<df_nodes, df_connections, random_tool_ids,
                   execution_sequence, first_result, file, tool_id,
                   uploaded_file, session_state, frame>>

NextLayout == CallCreateToolConnectionGraph

SpecLayout == InitLayout /\ [][NextLayout]_vars

\* C23: in the layout of an acyclic workflow every graph node has exactly
\* one level, and for every drawn edge u -> v the level of u is strictly
\* smaller than the level of v.
C23_LevelsIncreaseAlongEdges ==
    (pc = "drawn" /\ ~HasCycle(df_connections) /\ df_nodes.rows # <<>>)
    => LET levels == result.value.levels
           G == result.value.G
           LevelsOf(n) == {levels[i].level : i \in {j \in DOMAIN levels :
                                                       levels[j].node = n}}
       IN /\ result.value.layout = "levels"
          /\ \A n \in Range(G.nodes) :
                Cardinality({j \in DOMAIN levels : levels[j].node = n}) = 1
          /\ \A e \in Range(G.edges) :
                \A lu \in LevelsOf(e[1]) : \A lv \in LevelsOf(e[2]) : lu < lv

\* ===================================================================
\* The Generation History tab
\* ===================================================================
MaxHistory == 3
MaxTime == 2

\* time.strftime("%Y-%m-%d %H:%M:%S"): fixed-width text whose order as text
\* is the order in time, to the second; kept as the number of the second.
Timestamps == 1..MaxTime
Outputs == {"SELECT 1", "SELECT 2"}

HistoryItem(timestamp, output) == [timestamp |-> timestamp, output |-> output]

\* sorted(..., key=timestamp, reverse=True) on the positions of the list:
\* stable, so entries of the same second keep their stored order.
RECURSIVE InsertNewestFirst(_, _, _)
InsertNewestFirst(history, sorted, i) ==
    IF sorted = <<>> THEN <<i>>
    ELSE IF history[Head(sorted)].timestamp >= history[i].timestamp
    THEN <<Head(sorted)>> \o InsertNewestFirst(history, Tail(sorted), i)
    ELSE <<i>> \o sorted

RECURSIVE SortedPositions(_, _)
SortedPositions(history, n) ==
    IF n = 0 THEN <<>>
    ELSE InsertNewestFirst(history, SortedPositions(history, n - 1), n)

sorted_history(history) ==
    [k \in DOMAIN history |-> history[SortedPositions(history, Len(history))[k]]]

\* list.pop(i) with i counted from 1.
pop(list, i) == SubSeq(list, 1, i - 1) \o SubSeq(list, i + 1, Len(list))

InitHistory ==
    /\ frame = <<>>
    /\ uploaded_file = <<>>
    /\ session_state = [generation_history |-> <<>>]
    /\ pc = "idle"
    /\ df_nodes = EmptyDataFrame
    /\ df_connections = EmptyDataFrame
    /\ random_tool_ids = <<>>
    /\ execution_sequence = <<>>
    /\ result = NoResult
    /\ first_result = NoResult
    /\ file = "none"
    /\ tool_id = Null

\* A conversion succeeds and appends its item, stamped with the time of
\* the append, which is not before the time of any earlier item.
AppendHistoryItem ==
    /\ Len(session_state.generation_history) < MaxHistory
    /\ \E t \in Timestamps, output \in Outputs :
          /\ \A k \in DOMAIN session_state.generation_history :
                session_state.generation_history[k].timestamp <= t
          /\ session_state' =
                [generation_history |->
                    Append(session_state.generation_history,
                           HistoryItem(t, output))]
    /\ pc' = "generated"
    /\ result' = NoResult
    /\ first_result' = NoResult
    /\ UNCHANGED <<df_nodes, df_connections, random_tool_ids,
                   execution_sequence, file, tool_id, uploaded_file, frame>>

\* The user presses the Delete button of the i-th entry shown; result
\* keeps the entry the button was shown in and first_result the history
\* before the press.
PressDelete ==
    /\ session_state.generation_history # <<>>
    /\ \E i \in DOMAIN session_state.generation_history :
          /\ result' = Return(sorted_history(session_state.generation_history)[i])
          /\ tool_id' = i
          /\ session_state' =
                [generation_history |-> pop(session_state.generation_history, i)]
    /\ first_result' = Return(session_state.generation_history)
    /\ pc' = "deleted"
    /\ UNCHANGED <<df_nodes, df_connections, random_tool_ids,
                   execution_sequence, file, uploaded_file, frame>>

PressClearAllHistory ==
    /\ session_state.generation_history # <<>>
    /\ session_state' = [generation_history |-> <<>>]
    /\ pc' = "cleared"
    /\ result' = NoResult
    /\ first_result' = NoResult
    /\ UNCHANGED <<df_nodes, df_connections, random_tool_ids,
                   execution_sequence, file, tool_id, uploaded_file, frame>>

NextHistory == AppendHistoryItem \/ PressDelete \/ PressClearAllHistory

SpecHistory == InitHistory /\ [][NextHistory]_vars

\* C24: pressing Delete inside an entry of a history of two or more
\* entries removes that entry and leaves the others as they were: the
\* history after the press is the history before it without one
\* occurrence of the entry, the others in their order.
C24_DeleteRemovesShownEntry ==
    (pc = "deleted" /\ Len(first_result.value) >= 2)
    => \E k \in DOMAIN first_result.value :
          /\ first_result.value[k] = result.value
          /\ session_state.generation_history =
                SubSeq(first_result.value, 1, k - 1)
                \o SubSeq(first_result.value, k + 1, Len(first_result.value))

\* ---------------------------- specification: chain building, step by step
\* parse_linear_chains with its loops unrolled: one action per iteration of
\* the main loop's pair of for loops, one per iteration of build_chain's
\* while loop.  frame holds the locals of the call.
NumChainTools == 2
MaxChainConns == 3

ChainToolIds == 1..NumChainTools

\* The locals of parse_linear_chains when the main loop is entered.
EntryFrame ==
    [u_index |-> 1, v_index |-> 1, used_edges |-> {}, chains |-> <<>>,
     chain |-> <<>>, current |-> Null]

InitChainSteps ==
    /\ frame = <<>>
    /\ uploaded_file = <<>>
    /\ session_state = <<>>
    /\ pc = "ready"
    /\ df_nodes = EmptyDataFrame
    /\ \E pairs \in SeqsUpTo(ChainToolIds \X ChainToolIds, MaxChainConns) :
           df_connections = DataFrame(ConnectionRows(pairs))
    /\ random_tool_ids = <<>>
    /\ execution_sequence = <<>>
    /\ result = NoResult
    /\ first_result = NoResult
    /\ tool_id = Null
    /\ file = "none"

\* Lines 56-78: the graph is built, or the column lookup fails.
EnterParseLinearChains ==
    /\ pc = "ready"
    /\ IF ~df_connections.columns
       THEN /\ result' = Raise(KeyError)
            /\ pc' = "done"
            /\ UNCHANGED frame
       ELSE /\ frame' = EntryFrame
            /\ pc' = "main_loop"
            /\ UNCHANGED result
    /\ UNCHANGED <<df_nodes, df_connections, random_tool_ids,
                   execution_sequence, first_result, file, tool_id,
                   uploaded_file, session_state>>

\* A while loop that does not look at used_edges.
NextEdge_ignore_used(g, used_edges, current) ==
    IF ~IsLinear(g, current) THEN <<>>
    ELSE LET next_nodes == g.adj_list[current]
         IN IF next_nodes = <<>> THEN <<>>
            ELSE <<current, next_nodes[1]>>

\* The edge a while-loop iteration would take from the current node, or
\* <<>> when the loop exits.
NextEdge(g, used_edges, current) ==
    IF ~IsLinear(g, current) THEN <<>>
    ELSE LET next_nodes == g.adj_list[current]
         IN IF next_nodes = <<>> THEN <<>>
            ELSE IF <<current, next_nodes[1]>> \in used_edges THEN <<>>
            ELSE <<current, next_nodes[1]>>

\* One iteration of "for u in adj_list: for v in adj_list[u]".
MainLoopStep ==
    /\ pc = "main_loop"
    /\ LET g == BuildGraph(df_connections.rows)
       IN IF frame.u_index > Len(g.keys)
          THEN /\ result' = Return(frame.chains)
               /\ pc' = "done"
               /\ UNCHANGED frame
          ELSE LET u == g.keys[frame.u_index]
               IN IF frame.v_index > Len(g.adj_list[u])
                  THEN /\ frame' = [frame EXCEPT !.u_index = @ + 1,
                                                 !.v_index = 1]
                       /\ UNCHANGED <<pc, result>>
                  ELSE LET v == g.adj_list[u][frame.v_index]
                       IN IF EdgeUnused(frame.used_edges, u, v)
                          THEN /\ frame' = [frame EXCEPT
                                      !.chain = <<u, v>>,
                                      !.used_edges = @ \cup {<<u, v>>},
                                      !.current = v]
                               /\ pc' = "while_loop"
                               /\ UNCHANGED result
                          ELSE /\ frame' = [frame EXCEPT !.v_index = @ + 1]
                               /\ UNCHANGED <<pc, result>>
    /\ UNCHANGED <<df_nodes, df_connections, random_tool_ids,
                   execution_sequence, first_result, file, tool_id,
                   uploaded_file, session_state>>

\* One test of build_chain's while condition: the chain grows by one
\* vertex, or build_chain returns and the chain is appended to chains.
WhileLoopStep ==
    /\ pc = "while_loop"
    /\ LET g == BuildGraph(df_connections.rows)
           edge == NextEdge(g, frame.used_edges, frame.current)
       IN IF edge = <<>>
          THEN /\ frame' = [frame EXCEPT
                      !.chains = Append(@, frame.chain),
                      !.chain = <<>>,
                      !.current = Null,
                      !.v_index = @ + 1]
               /\ pc' = "main_loop"
          ELSE /\ frame' = [frame EXCEPT
                      !.chain = Append(@, edge[2]),
                      !.used_edges = @ \cup {edge},
                      !.current = edge[2]]
               /\ UNCHANGED pc
    /\ UNCHANGED <<df_nodes, df_connections, random_tool_ids,
                   execution_sequence, result, first_result, file, tool_id,
                   uploaded_file, session_state>>

NextChainSteps ==
    \/ EnterParseLinearChains
    \/ MainLoopStep
    \/ WhileLoopStep

SpecChainSteps == InitChainSteps /\ [][NextChainSteps]_vars

\* The interpreter keeps executing the call: a step that is possible is
\* eventually taken.
SpecChainStepsFair == SpecChainSteps /\ WF_vars(NextChainSteps)

\* The edges of the connection table, as build_chain sees them.
TableEdges ==
    {<<Str(df_connections.rows[i].origin_tool_id),
       Str(df_connections.rows[i].destination_tool_id)>> :
     i \in DOMAIN df_connections.rows}

\* A step of chain building: the chain under construction grows.
ChainGrows ==
    /\ frame # <<>>
    /\ frame' # <<>>
    /\ frame'.chain # <<>>
    /\ frame'.chain # frame.chain

\* C26: parse_linear_chains terminates on every finite connection table,
\* tables with cycles or self-connections included: each step of chain
\* building consumes an edge of the table that was not used before, and
\* every returned chain is finite and has at least two vertices.
C26_ChainBuildingTerminates ==
    /\ <>(pc = "done")
    /\ [][ChainGrows
          => /\ frame'.used_edges \subseteq TableEdges
             /\ Cardinality(frame'.used_edges)
                    = Cardinality(frame.used_edges) + 1]_vars
    /\ [](pc = "done" /\ result.kind = "return"
          => /\ result = parse_linear_chains(df_connections)
             /\ \A k \in DOMAIN result.value :
                   /\ Len(result.value[k]) >= 2
                   /\ Len(result.value[k]) <= Cardinality(TableEdges) + 1)

\* The call has returned the chains of a table that holds a cycle between
\* two tools or a self-connection.
C26_CycleParsed ==
    /\ pc = "done"
    /\ result.kind = "return"
    /\ result.value # <<>>
    /\ \E e \in TableEdges : <<e[2], e[1]>> \in TableEdges

\* ------------------------------------- specification: input/output names
\* create_tool_io_template asks get_input_name and get_output_name for the
\* names of one tool and writes them into the prompt text.  The tables are
\* the ones load_alteryx_connections produces: an Origin or Destination
\* element without ToolID gives a null id.
RECURSIVE JoinStrings(_)
JoinStrings(strings) ==
    IF strings = <<>> THEN ""
    ELSE IF Len(strings) = 1 THEN strings[1]
    ELSE Head(strings) \o ", " \o JoinStrings(Tail(strings))

\* The ordinal of the i-th output, i counted from 0.
Ordinal(i) ==
    IF i = 0 THEN "1st"
    ELSE IF i = 1 THEN "2nd"
    ELSE IF i = 2 THEN "3rd"
    ELSE ToString(i + 1) \o "th"

create_tool_io_template(connections, id) ==
    LET input_details == get_input_name(connections, id)
        output_details == get_output_name(connections, id)
    IN IF input_details.kind = "raise" THEN input_details
       ELSE IF output_details.kind = "raise" THEN output_details
       ELSE LET inputs == input_details.value
                outputs == output_details.value
                num_inputs == Len(inputs)
                input_str ==
                    IF num_inputs = 0 THEN "No inputs"
                    ELSE JoinStrings([i \in DOMAIN inputs |->
                             inputs[i][1] \o " connects to the '"
                             \o inputs[i][2] \o "'"])
                output_str ==
                    IF Len(outputs) = 0 THEN "No outputs"
                    ELSE JoinStrings([i \in DOMAIN outputs |->
                             "name the " \o Ordinal(i - 1) \o " output as "
                             \o outputs[i]])
            IN Return([input_details |-> inputs,
                       output_details |-> outputs,
                       template_text |->
                           "This tool with id " \o IdText(id) \o " has "
                           \o ToString(num_inputs)
                           \o " input(s), their variable name is "
                           \o input_str \o ". Use " \o input_str
                           \o " as the input for this tool And "
                           \o output_str \o "."])

\* The ids a connection row can hold: a tool's id, or null.
RowIds == IoToolIds \cup {Null}

InitNames ==
    /\ frame = <<>>
    /\ uploaded_file = <<>>
    /\ session_state = <<>>
    /\ pc = "ready"
    /\ df_nodes = EmptyDataFrame
    /\ \E rows \in SeqsUpTo(RowIds \X OriginPorts \X RowIds \X DestinationPorts,
                            MaxIoConns) :
           df_connections =
               DataFrame([i \in DOMAIN rows |->
                   ConnectionRow(rows[i][1], rows[i][2], rows[i][3], rows[i][4])])
    /\ tool_id \in IoToolIds
    /\ random_tool_ids = <<>>
    /\ execution_sequence = <<>>
    /\ result = NoResult
    /\ first_result = NoResult
    /\ file = "none"

CallCreateToolIoTemplate ==
    /\ pc = "ready"
    /\ pc' = "io_template"
    /\ result' = create_tool_io_template(df_connections, tool_id)
    /\ UNCHANGED <<df_nodes, df_connections, random_tool_ids,
                   execution_sequence, first_result, file, tool_id,
                   uploaded_file, session_state, frame>>

NextNames == CallCreateToolIoTemplate

SpecNames == InitNames /\ [][NextNames]_vars

\* C27: for every connection row (o, p, d, q) the name df_o_p is one of
\* get_output_name(o) and the pair [df_o_p, q] is one of get_input_name(d);
\* so every input name given to a tool is an output name announced to
\* some tool.
C27_ProducerConsumerNamesAgree ==
    (pc = "io_template" /\ result.kind = "return")
    => /\ \A i \in DOMAIN df_connections.rows :
            LET row == df_connections.rows[i]
                name == DfName(row.origin_tool_id, row.origin_connection)
            IN /\ name \in Range(get_output_name(df_connections,
                                                 row.origin_tool_id).value)
               /\ <<name, row.destination_connection>> \in
                      Range(get_input_name(df_connections,
                                           row.destination_tool_id).value)
       /\ \A k \in DOMAIN result.value.input_details :
            \E t \in IoToolIds :
                result.value.input_details[k][1] \in
                    Range(create_tool_io_template(df_connections, t)
                              .value.output_details)

\* ------------------------------------ specification: per-tool generation
\* generate_python_code_from_alteryx_df, generate_sql_code_from_alteryx_df
\* and generate_tool_descriptions: one text-generation call per row of the
\* nodes table.  The call is the environment's: it returns a text or
\* raises, whatever the prompt is.
MaxGenTools == 2

Generators == {"python", "sql", "description"}

\* What chain.run can do: return a text, or raise an exception with a
\* message.
LlmResponses == {" x = 1 ", "SELECT 1"}
LlmErrors == {"Error code: 429", "rate_limit reached", "too many tokens",
              "connection reset"}
LlmOutcomes == {Return(r) : r \in LlmResponses} \cup {Raise(e) : e \in LlmErrors}

\* "sub in s"
Contains(s, sub) ==
    \E i \in 1..(Len(s) - Len(sub) + 1) : SubSeq(s, i, i + Len(sub) - 1) = sub

\* str.strip(), for texts padded with spaces.
RECURSIVE lstrip(_)
lstrip(s) == IF s = "" THEN "" ELSE IF Head(s) = " " THEN lstrip(Tail(s)) ELSE s

RECURSIVE rstrip(_)
rstrip(s) ==
    IF s = "" THEN ""
    ELSE IF SubSeq(s, Len(s), Len(s)) = " " THEN rstrip(SubSeq(s, 1, Len(s) - 1))
    ELSE s

strip(s) == lstrip(rstrip(s))

\* The input and output sentence of generate_tool_descriptions' prompt.
create_tool_io_description(connections, id) ==
    LET input_details == get_input_name(connections, id)
        output_details == get_output_name(connections, id)
    IN IF input_details.kind = "raise" THEN input_details
       ELSE IF output_details.kind = "raise" THEN output_details
       ELSE LET inputs == input_details.value
                outputs == output_details.value
                sources == [i \in DOMAIN inputs |-> inputs[i][1]]
                input_desc ==
                    IF Len(inputs) = 0 THEN "This tool has no input data"
                    ELSE IF Len(inputs) = 1
                    THEN "This tool receives data from " \o sources[1]
                    ELSE "This tool receives data from "
                         \o JoinStrings(SubSeq(sources, 1, Len(sources) - 1))
                         \o " and " \o sources[Len(sources)]
                output_desc ==
                    IF Len(outputs) = 0 THEN " and produces no output"
                    ELSE IF Len(outputs) = 1
                    THEN " and produces output named " \o outputs[1]
                    ELSE " and produces " \o ToString(Len(outputs))
                         \o " outputs: "
                         \o JoinStrings(SubSeq(outputs, 1, Len(outputs) - 1))
                         \o " and " \o outputs[Len(outputs)]
            IN Return(input_desc \o output_desc)

\* The I/O text a generator puts into the prompt of one tool.
IoInfo(generator, connections, id) ==
    IF generator = "description"
    THEN create_tool_io_description(connections, id)
    ELSE LET t == create_tool_io_template(connections, id)
         IN IF t.kind = "raise" THEN t ELSE Return(t.value.template_text)

\* The text the except branch stores for a failed call.
ErrorPlaceholder(generator, row, error_msg) ==
    IF generator = "python"
    THEN "# Error generating code for tool " \o IdText(row.tool_id)
         \o ": " \o error_msg
    ELSE IF generator = "sql"
    THEN "-- Error generating SQL code for tool " \o IdText(row.tool_id)
         \o ": " \o error_msg
    ELSE IF Contains(str_lower(error_msg), "rate_limit") \/ Contains(error_msg, "429")
    THEN "Rate limit exceeded for tool " \o IdText(row.tool_id) \o " ("
         \o row.tool_type \o "). Please wait and try again."
    ELSE IF Contains(str_lower(error_msg), "token")
    THEN "Token limit exceeded for tool " \o IdText(row.tool_id) \o " ("
         \o row.tool_type \o "). Configuration too large."
    ELSE "Error generating description for tool " \o IdText(row.tool_id)
         \o " (" \o row.tool_type \o "): " \o error_msg

\* The row appended to results for one tool.
ResultRow(row, text) ==
    [tool_id |-> row.tool_id, tool_type |-> row.tool_type, generated |-> text]

InitGenerate ==
    /\ frame = <<>>
    /\ uploaded_file = <<>>
    /\ session_state = <<>>
    /\ pc = "ready"
    /\ \E ids \in SeqsUpTo(IoToolIds, MaxGenTools) :
           df_nodes = DataFrameWithColumns(
               [i \in DOMAIN ids |-> NodeRecord(ids[i], "Select", "")])
    /\ df_connections \in
          {DataFrame(<<>>),
           DataFrame(<<ConnectionRow(1, "Output", 2, "Input")>>)}
    /\ random_tool_ids = <<>>
    /\ execution_sequence = <<>>
    /\ result = NoResult
    /\ first_result = NoResult
    /\ tool_id = Null
    /\ file = "none"

\* The generator is called on a nodes table the application has filtered
\* by type and id: the chain is set up and the loop is entered.
CallGenerator(generator) ==
    /\ pc = "ready"
    /\ frame' = [generator |-> generator, index |-> 1,
                 results |-> <<>>, calls |-> <<>>]
    /\ pc' = "loop"
    /\ UNCHANGED <<df_nodes, df_connections, random_tool_ids,
                   execution_sequence, result, first_result, file, tool_id,
                   uploaded_file, session_state>>

\* One iteration of "for index, row in df_nodes.iterrows()": the I/O text
\* is built outside the try, then the call is made inside it.
LoopIteration ==
    /\ pc = "loop"
    /\ frame.index <= Len(df_nodes.rows)
    /\ LET row == df_nodes.rows[frame.index]
           io_info == IoInfo(frame.generator, df_connections, row.tool_id)
       IN IF io_info.kind = "raise"
          THEN /\ result' = io_info
               /\ pc' = "done"
               /\ UNCHANGED frame
          ELSE \E outcome \in LlmOutcomes :
                  /\ frame' = [frame EXCEPT
                        !.results = Append(@, ResultRow(row,
                            IF outcome.kind = "return"
                            THEN strip(outcome.value)
                            ELSE ErrorPlaceholder(frame.generator, row,
                                                  outcome.exception))),
                        !.calls = Append(@, outcome),
                        !.index = @ + 1]
                  /\ UNCHANGED <<pc, result>>
    /\ UNCHANGED <<df_nodes, df_connections, random_tool_ids,
                   execution_sequence, first_result, file, tool_id,
                   uploaded_file, session_state>>

\* return pd.DataFrame(results)
ReturnResults ==
    /\ pc = "loop"
    /\ frame.index > Len(df_nodes.rows)
    /\ result' = Return(DataFrame(frame.results))
    /\ pc' = "done"
    /\ UNCHANGED <<df_nodes, df_connections, random_tool_ids,
                   execution_sequence, first_result, file, tool_id,
                   uploaded_file, session_state, frame>>

NextGenerate ==
    \/ \E generator \in Generators : CallGenerator(generator)
    \/ LoopIteration
    \/ ReturnResults

SpecGenerate == InitGenerate /\ [][NextGenerate]_vars

\* C29: per-tool generation returns exactly one result row per row of the
\* input nodes table, in input order, whatever successes and failures the
\* text-generation calls produce: a failed call yields an error
\* placeholder row for its tool and the later tools are still processed.
C29_OneResultRowPerTool ==
    (pc = "done")
    => /\ result.kind = "return"
       /\ Len(result.value.rows) = Len(df_nodes.rows)
       /\ Len(frame.calls) = Len(df_nodes.rows)
       /\ \A i \in DOMAIN df_nodes.rows :
             /\ result.value.rows[i].tool_id = df_nodes.rows[i].tool_id
             /\ frame.calls[i].kind = "raise"
                => result.value.rows[i].generated =
                       ErrorPlaceholder(frame.generator, df_nodes.rows[i],
                                        frame.calls[i].exception)

\* ------------------------------- specification: connection rows with nulls
\* get_execution_order on the tables load_alteryx_connections produces
\* when Origin or Destination elements lack their ToolID: rows with a null
\* origin id, a null destination id, or both.
NumNullTools == 2
MaxNullConns == 3

NullToolIds == 1..NumNullTools

\* The table with the rows that have a null id taken out.
WithoutNullRows(connections) ==
    [connections EXCEPT !.rows =
        SelectSeq(@, LAMBDA row : row.origin_tool_id # Null
                                  /\ row.destination_tool_id # Null)]

InitNullRows ==
    /\ frame = <<>>
    /\ uploaded_file = <<>>
    /\ session_state = <<>>
    /\ pc = "ready"
    /\ \E k \in 0..NumNullTools :
           df_nodes = DataFrameWithColumns([i \in 1..k |-> NodeRow(i)])
    /\ \E pairs \in SeqsUpTo((NullToolIds \cup {Null}) \X (NullToolIds \cup {Null}),
                             MaxNullConns) :
           df_connections = DataFrame(ConnectionRows(pairs))
    /\ random_tool_ids = <<>>
    /\ execution_sequence = <<>>
    /\ result = NoResult
    /\ first_result = NoResult
    /\ tool_id = Null
    /\ file = "none"

\* get_execution_order on the same nodes and the table without its null
\* rows, after the call on the full table.
CallGetExecutionOrderWithoutNullRows ==
    /\ pc = "done"
    /\ first_result' = get_execution_order(df_nodes, WithoutNullRows(df_connections))
    /\ pc' = "compared"
    /\ UNCHANGED <<df_nodes, df_connections, random_tool_ids,
                   execution_sequence, result, file, tool_id,
                   uploaded_file, session_state, frame>>

NextNullRows ==
    \/ CallGetExecutionOrder
    \/ CallGetExecutionOrderWithoutNullRows

SpecNullRows == InitNullRows /\ [][NextNullRows]_vars

\* The rows of the connection table that hold a null id.
NullRows ==
    {i \in DOMAIN df_connections.rows :
        \/ df_connections.rows[i].origin_tool_id = Null
        \/ df_connections.rows[i].destination_tool_id = Null}

\* C30: a connection row whose origin id or destination id is null gives
\* the graph of get_execution_order neither an edge nor a vertex and never
\* makes it fail: the outcome is the one the table without that row gives.
C30_NullRowsIgnored ==
    (pc = "compared")
    => /\ result = first_result
       /\ result.kind = "return"
          => /\ Null \notin Range(result.value)
             /\ \A j \in DOMAIN result.value :
                   result.value[j] \in
                       Range(ColumnOf(df_nodes.rows, "tool_id"))
                       \cup EndpointIds(WithoutNullRows(df_connections))

\* Witness of C30: a table with a row whose origin is null, a row whose
\* destination is null and a connection that reorders the tools was
\* ordered.
C30_Witness ==
    /\ pc = "compared"
    /\ result.kind = "return"
    /\ \E i, j, k \in DOMAIN df_connections.rows :
          /\ df_connections.rows[i].origin_tool_id = Null
          /\ df_connections.rows[i].destination_tool_id # Null
          /\ df_connections.rows[j].origin_tool_id # Null
          /\ df_connections.rows[j].destination_tool_id = Null
          /\ k \notin NullRows
    /\ Len(result.value) = 2
    /\ result.value # ColumnOf(df_nodes.rows, "tool_id")

====
